---- MODULE Spec2Model ----
(***************************************************************************)
(* A model of the locomote content server's coordination code:             *)
(*   - lib/async.js: queue / opqueue, singleton, workerQueue               *)
(*   - lib/filedb: the file-info DB, the listing pipelines and the single  *)
(*     file record pipeline, with the ACM filter                           *)
(*   - lib/search: the search HTTP response writer and the indexer         *)
(* Every subsystem has its own variables, initial condition and next-state *)
(* relation; a subsystem's specification leaves the variables of the other *)
(* subsystems at their initial value.                                      *)
(***************************************************************************)
EXTENDS Integers, Sequences, FiniteSets, TLC

VARIABLES
    \* lib/async.js queue()
    Queues,             \* the module-level map of pending queues
    qops,               \* every operation submitted with queue(), in call order
    \* lib/async.js singleton()
    SingletonCallers,   \* the module-level map id -> list of pending callers
    sexecs,             \* every execution of op started by singleton()
    scallers,           \* every call of singleton(), in call order
    \* lib/async.js workerQueue()
    wqueue,             \* the pool's queue of waiting requests
    active,             \* the pool's count of active workers
    wreqs,              \* every request added to the pool, in call order
    \* the content repository (one account/repo/branch, one ctx.key)
    hist,               \* hist[c]: the tree of the branch at commit c
    \* lib/filedb/fileinfo-db.js
    epoch,              \* number of content-repo-update events emitted so far
    Cache,              \* the LRU of file-info DBs, for the one key
    fiCallers,          \* SingletonCallers[key] of the population singleton
    pop,                \* the population in flight (the singleton's op)
    reqs,               \* the filedb requests made so far, in call order
    \* lib/filedb/updates.js
    artifacts,          \* the pipeline step outputs cached on disk
    listings,           \* the listing requests made so far, with their result
    \* lib/search/httpapi.js: one search request
    rphase,             \* where the handler is
    nrec,               \* records of the result file streamed so far
    rqueue,             \* Queues[ResponseQueue]
    rops,               \* the operations submitted to the response queue
    res,                \* the chunks passed to res.write and res.end, in order
    count,              \* the handler's count of records written
    \* lib/search/indexer.js
    iqueue,             \* Queues['sh.locomote.search.indexer']
    units,              \* the indexing units submitted, in call order
    txn,                \* the transaction state of the search DB connection
    scopes,             \* the rows of the scope table, by branch
    \* lib/async.js cachingSingleton()
    cscache,            \* the LRU of results, by id
    cscalls,            \* the calls of the caching singleton function
    completed,          \* ids whose op has resolved since the last eviction
    \* lib/builder: the build queue and the startup scan
    disabled,           \* the build settings' disabled flag
    inProfile,          \* branch -> the build profile's buildable list has it
    bheads,             \* branch -> head commit of the source branch (0: none)
    buildb,             \* the build DB: branch -> last build commit (0: none)
    bqueue,             \* Queues['sh.locomote.builder']
    builds,             \* the build requests submitted, in call order
    scan,               \* the startup scan
    \* lib/manifests: the manifest cache and the commit cache
    ManifestCache,      \* repoDir -> 0 (no entry) or the entry's branches object
    mobjs,              \* the branches objects: branch -> cached manifest
    CommitCache,        \* repoDir -> cached commit hash (0: no entry)
    mver,               \* repoDir -> version of the repository's manifest
    mcalls,             \* calls of load / getCommitHash, in call order
    \* lib/query: the synced set and the query file DBs
    Synced,             \* key -> set of groups marked as synced
    filedbs,            \* key -> group -> latest commit the file DB holds
    qhead,              \* key -> head commit of the content repository
    qreqs,              \* query requests, in arrival order
    \* lib/httpapi: the repository API and the branch DB
    branchDB,           \* the public branch list of the repository in the branch DB
    hreqs,              \* the HTTP requests received, in arrival order
    \* lib/negotiator: one resource's representation bundle
    nkind,              \* the negotiator that made the bundle: "std" or "acm"
    nreps,              \* the representation files inserted, in insertion order
    nchoices,           \* the requests resolved against the bundle
    \* lib/search cache: one branch's on-disk search result cache
    scfiles,            \* the cached result files: path -> stat info, or NoFile
    sclock,             \* Date.now(), in units of RecentTime
    scprunes,           \* the outcomes of the pruneRepoCache calls
    \* lib/search db: the files and text tables, for the rows of one scope
    sfiles,             \* the rows of the files table, in rowid order
    stext,              \* the text table: rowid -> text
    sapplied,           \* the updateContent calls made: their number and the last scope and record
    \* lib/http-auth basic: the cache of resolved users and the requests
    AuthenticationUsers,\* the LRU cache: the keys set, with their users
    authcalls,          \* the authenticate calls made, with their outcomes
    \* lib/negotiator: the resources cache and the getResources calls
    ResourcesCache,     \* repo key -> the resources cached (the call that listed them), 0 when none
    gcalls,             \* the getResources calls made
    \* lib/acm: the authenticate calls
    acmcalls,           \* the acm.authenticate calls, each with its ctx.auth and outcome
    \* lib/search db: one makeExcerpt call
    excerpt,            \* the text length and match index given, and the window made
    \* lib/filedb/files.js: the cached artifacts of the file pipelines
    fartifacts,         \* the artifacts in the cache: path and the request data written
    fserved,            \* the file requests served: their number and the last one
    \* lib/search/server.js: the open step of the search pipeline
    openq,              \* the queue Queues[SearchQueue]
    openops,            \* the operations given to queue( SearchQueue, .. )
    opens               \* the open steps started: position, rows and output stream

qvars == <<Queues, qops>>
svars == <<SingletonCallers, sexecs, scallers>>
wvars == <<wqueue, active, wreqs>>
hvars == <<hist>>
fvars == <<epoch, Cache, fiCallers, pop, reqs>>
lvars == <<artifacts, listings>>
rvars == <<rphase, nrec, rqueue, rops, res, count>>
ivars == <<iqueue, units, txn, scopes>>
cvars == <<cscache, cscalls, completed>>
bvars == <<disabled, inProfile, bheads, buildb, bqueue, builds, scan>>
mvars == <<ManifestCache, mobjs, CommitCache, mver, mcalls>>
yvars == <<Synced, filedbs, qhead, qreqs>>
avars == <<branchDB, hreqs>>
nvars == <<nkind, nreps, nchoices>>
pvars == <<scfiles, sclock, scprunes>>
dvars == <<sfiles, stext, sapplied>>
uvars == <<AuthenticationUsers, authcalls>>
gvars == <<ResourcesCache, gcalls>>
xvars == <<acmcalls>>
evars == <<excerpt>>
tvars == <<fartifacts, fserved>>
ovars == <<openq, openops, opens>>

vars == <<qvars, svars, wvars, hvars, fvars, lvars, rvars, ivars, cvars, bvars,
         mvars, yvars, avars, nvars, pvars, dvars, uvars, gvars, xvars, evars, tvars, ovars>>

\* What an action of one subsystem leaves alone.
FrameQueue     == UNCHANGED <<svars, wvars, hvars, fvars, lvars, rvars, ivars, cvars,
                            bvars, mvars, yvars, avars, nvars, pvars, dvars, uvars, gvars, xvars, evars, tvars, ovars>>
FrameSingleton == UNCHANGED <<qvars, wvars, hvars, fvars, lvars, rvars, ivars, cvars,
                            bvars, mvars, yvars, avars, nvars, pvars, dvars, uvars, gvars, xvars, evars, tvars, ovars>>
FrameWorker    == UNCHANGED <<qvars, svars, hvars, fvars, lvars, rvars, ivars, cvars,
                            bvars, mvars, yvars, avars, nvars, pvars, dvars, uvars, gvars, xvars, evars, tvars, ovars>>
FrameFileInfo  == UNCHANGED <<qvars, svars, wvars, lvars, rvars, ivars, cvars,
                            bvars, mvars, yvars, avars, nvars, pvars, dvars, uvars, gvars, xvars, evars, tvars, ovars>>
FrameListing   == UNCHANGED <<qvars, svars, wvars, hvars, fvars, rvars, ivars, cvars,
                            bvars, mvars, yvars, avars, nvars, pvars, dvars, uvars, gvars, xvars, evars, tvars, ovars>>
FrameResponse  == UNCHANGED <<qvars, svars, wvars, hvars, fvars, lvars, ivars, cvars,
                            bvars, mvars, yvars, avars, nvars, pvars, dvars, uvars, gvars, xvars, evars, tvars, ovars>>
FrameCaching   == UNCHANGED <<qvars, wvars, hvars, fvars, lvars, rvars, ivars,
                            bvars, mvars, yvars, avars, nvars, pvars, dvars, uvars, gvars, xvars, evars, tvars, ovars>>
FrameBuilder   == UNCHANGED <<qvars, svars, wvars, hvars, fvars, lvars, rvars,
                            ivars, cvars, mvars, yvars, avars, nvars, pvars, dvars, uvars, gvars, xvars, evars, tvars, ovars>>
FrameManifests == UNCHANGED <<qvars, svars, wvars, hvars, fvars, lvars, rvars,
                            ivars, cvars, bvars, yvars, avars, nvars, pvars, dvars, uvars, gvars, xvars, evars, tvars, ovars>>
FrameQuery     == UNCHANGED <<qvars, svars, wvars, hvars, fvars, lvars, rvars,
                            ivars, cvars, bvars, mvars, avars, nvars, pvars, dvars, uvars, gvars, xvars, evars, tvars, ovars>>
FrameIndexer   == UNCHANGED <<qvars, svars, wvars, hvars, fvars, lvars, rvars, cvars,
                            bvars, mvars, yvars, avars, nvars, pvars, dvars, uvars, gvars, xvars, evars, tvars, ovars>>
FrameHttp      == UNCHANGED <<qvars, svars, wvars, hvars, fvars, lvars, rvars, ivars, cvars, bvars, mvars, yvars, nvars, pvars, dvars, uvars, gvars, xvars, evars, tvars, ovars>>
FrameNegotiator == UNCHANGED <<qvars, svars, wvars, hvars, fvars, lvars, rvars, ivars, cvars, bvars, mvars, yvars, avars, pvars, dvars, uvars, gvars, xvars, evars, tvars, ovars>>
FramePrune     == UNCHANGED <<qvars, svars, wvars, hvars, fvars, lvars, rvars, ivars, cvars, bvars, mvars, yvars, avars, nvars, dvars, uvars, gvars, xvars, evars, tvars, ovars>>
FrameSearchDB  == UNCHANGED <<qvars, svars, wvars, hvars, fvars, lvars, rvars, ivars, cvars, bvars, mvars, yvars, avars, nvars, pvars, uvars, gvars, xvars, evars, tvars, ovars>>
FrameBasicAuth == UNCHANGED <<qvars, svars, wvars, hvars, fvars, lvars, rvars, ivars, cvars, bvars, mvars, yvars, avars, nvars, pvars, dvars, gvars, xvars, evars, tvars, ovars>>
FrameResources == UNCHANGED <<svars, wvars, hvars, fvars, lvars, rvars, ivars, cvars, bvars, mvars, yvars, avars, nvars, pvars, dvars, uvars, xvars, evars, tvars, ovars>>
FrameAcm       == UNCHANGED <<qvars, svars, wvars, hvars, fvars, lvars, rvars, ivars, cvars, bvars, mvars, yvars, avars, nvars, pvars, dvars, gvars, evars, tvars, ovars>>
FrameExcerpt   == UNCHANGED <<qvars, svars, wvars, hvars, fvars, lvars, rvars, ivars, cvars, bvars, mvars, yvars, avars, nvars, pvars, dvars, uvars, gvars, xvars, tvars, ovars>>
FrameFiles     == UNCHANGED <<qvars, svars, wvars, hvars, fvars, lvars, rvars, ivars, cvars, bvars, mvars, yvars, avars, nvars, pvars, dvars, uvars, gvars, xvars, evars, ovars>>
FrameOpen      == UNCHANGED <<qvars, svars, wvars, hvars, fvars, lvars, rvars, ivars, cvars, bvars, mvars, yvars, avars, nvars, pvars, dvars, uvars, gvars, xvars, evars, tvars>>

(***************************************************************************)
(* Bounds of the model.                                                    *)
(***************************************************************************)
MaxOps     == 4     \* queue() calls in a behaviour
MaxCalls   == 4     \* singleton() calls in a behaviour
MaxReqs    == 4     \* requests added to a worker pool in a behaviour
PoolSize   == 2     \* the count argument of workerQueue( count, fn )
MaxCommits == 2     \* commits on the branch in a behaviour
MaxEvents  == 2     \* content-repo-update events in a behaviour
MaxRequests == 2    \* filedb requests in a behaviour
MaxListings == 2    \* listing requests in a behaviour
MaxRecords == 3     \* records in the result file of a search
MaxUnits   == 3     \* indexing units submitted in a behaviour
MaxCachingCalls == 3    \* calls of a caching singleton in a behaviour
MaxBuilds  == 1     \* build requests submitted by notifications in a behaviour
MaxHead    == 1     \* commits on a build source branch in a behaviour
MaxManifestCalls   == 3     \* calls of load / getCommitHash in a behaviour
MaxManifestUpdates == 2     \* content-repo-update events in a behaviour
MaxQueryRequests   == 3     \* query requests in a behaviour
MaxQueryUpdates    == 2     \* content-repo-update events seen by lib/query
MaxHttpRequests    == 1     \* requests to the repository API in a behaviour
MaxReps            == 3     \* representations inserted into the bundle
MaxChoices         == 2     \* requests resolved against the bundle
MaxClock           == 3     \* the clock stops here
MaxPrunes          == 2     \* pruneRepoCache calls in a behaviour
maxCacheSize       == 2     \* settings.search.perBranchMaxCacheSize
RecentTime         == 1     \* 60000 ms, the unit of the clock
MaxContentUpdates  == 4     \* updateContent calls in a behaviour
MaxAuthCalls       == 3     \* authenticate calls in a behaviour
MaxResourceCalls   == 3     \* getResources calls in a behaviour
MaxAcmCalls        == 2     \* acm.authenticate calls in a behaviour
MaxTextLength      == 510   \* length of the content text of a row
ExcerptLength      == 500   \* const ExcerptLength
MaxFileCalls       == 2     \* getFileContents and getFileRecord calls in a behaviour
MaxSearches        == 2     \* open steps of the search pipeline in a behaviour
MaxRows            == 2     \* result rows of a search query

QueueNames == {"q1", "q2"}
IndexedBranches == {"master", "dev"}    \* the public branches
BuildBranches   == {"master", "dev"}    \* branchdb.listBuildable()
BuildOrder      == <<"master", "dev">>
RepoDirs        == {"acme/site"}        \* core.makeContentRepoPath(...)
ManifestBranches == {"master", "dev"}
QueryKeys       == {"acme/site/master"} \* ctx.key: account/repo/branch
QueryGroups     == {"public", "members"}    \* ctx.auth.group
OpIds      == {"a", "b"}

\* What calling the operation function does: it returns a promise that
\* settles later, or it does not return a promise (it returns a plain value
\* or throws before returning).
FnKinds    == {"promise", "nopromise"}
Outcomes   == {"ok", "err"}

Range(s) == {s[i] : i \in DOMAIN s}

(***************************************************************************)
(* lib/async.js: queue( queueName, fn )                                    *)
(***************************************************************************)
NoQueue == [exists |-> FALSE, items |-> <<>>]

\* The next() function of queue(), applied to the items of the queue and the
\* operations known so far.  It shifts the first item, calls its function and,
\* without waiting for the result, calls itself again; with an empty queue it
\* deletes the queue.  A function that returns no promise makes
\* fn().then(..) throw: next() ends there and leaves the (empty or not) queue
\* in place, and the item's promise is never settled.
RECURSIVE next(_, _)
next(items, ops) ==
    IF items = <<>>
    THEN [queue |-> NoQueue, ops |-> ops]
    ELSE LET i == Head(items) IN
         IF ops[i].kind = "promise"
         THEN next(Tail(items), [ops EXCEPT ![i].state = "running",
                                            ![i].starts = @ + 1])
         ELSE [queue |-> [exists |-> TRUE, items |-> Tail(items)],
               ops   |-> [ops EXCEPT ![i].state = "ran",
                                     ![i].starts = @ + 1]]

\* `if( queue.length == 1 )`: the item just pushed is the only one.
IsFirstItem_zero(items) == Len(items) = 0

IsFirstItem(items) == Len(items) = 1

\* queue( queueName, fn ): push the item; when it is the only item of the
\* queue, start processing with next().
queue(name, kind) ==
    /\ Len(qops) < MaxOps
    /\ LET i     == Len(qops) + 1
           ops1  == Append(qops, [name |-> name, kind |-> kind,
                                  state |-> "queued", result |-> "none",
                                  starts |-> 0])
           items == Append(Queues[name].items, i)
       IN IF IsFirstItem(items)
          THEN LET r == next(items, ops1) IN
               /\ Queues' = [Queues EXCEPT ![name] = r.queue]
               /\ qops' = r.ops
          ELSE /\ Queues' = [Queues EXCEPT ![name] =
                                [exists |-> TRUE, items |-> items]]
               /\ qops' = ops1
    /\ FrameQueue

\* The promise returned by fn() settles: .then( resolve ).catch( reject )
\* forwards the outcome to the promise queue() returned.
QueueOpSettles(i, outcome) ==
    /\ i \in DOMAIN qops
    /\ qops[i].state = "running"
    /\ qops' = [qops EXCEPT ![i].state = "settled", ![i].result = outcome]
    /\ UNCHANGED Queues
    /\ FrameQueue

(***************************************************************************)
(* lib/async.js: singleton( id, op )                                       *)
(***************************************************************************)
NoCallers == [exists |-> FALSE, callers |-> <<>>]

\* `let callers = SingletonCallers[id]; if( callers )`: an operation with
\* this id is pending.
SingletonPending_never(id) == FALSE

SingletonPending(id) == SingletonCallers[id].exists

\* The executions of id that have started and not settled.
RunningExecs(id) ==
    {e \in DOMAIN sexecs : sexecs[e].id = id /\ sexecs[e].state = "running"}

\* singleton( id, op ).  With a pending operation the caller is added to its
\* caller list.  Otherwise a new caller list is stored and op() is invoked;
\* when op() does not return a promise (it throws, or op().then throws) the
\* executor throws, the caller's promise is rejected and the caller list
\* stays in the map.
\* Each caller records the execution that was running when it arrived
\* (window, 0 for none) and whether its own call invoked op (started).
singletonCall(id, kind) ==
    /\ Len(scallers) < MaxCalls
    /\ LET c      == Len(scallers) + 1
           window == IF RunningExecs(id) = {} THEN 0
                     ELSE CHOOSE e \in RunningExecs(id) : TRUE
           e      == Len(sexecs) + 1
       IN IF SingletonPending(id)
          THEN /\ SingletonCallers' = [SingletonCallers EXCEPT ![id].callers =
                                          Append(@, c)]
               /\ scallers' = Append(scallers,
                      [id |-> id, window |-> window, exec |-> window,
                       started |-> FALSE, state |-> "pending",
                       result |-> <<0, "none">>])
               /\ UNCHANGED sexecs
          ELSE /\ SingletonCallers' = [SingletonCallers EXCEPT ![id] =
                                          [exists |-> TRUE, callers |-> <<c>>]]
               /\ IF kind = "promise"
                  THEN /\ sexecs' = Append(sexecs, [id |-> id,
                                       state |-> "running", outcome |-> "none"])
                       /\ scallers' = Append(scallers,
                              [id |-> id, window |-> window, exec |-> e,
                               started |-> TRUE, state |-> "pending",
                               result |-> <<0, "none">>])
                  ELSE /\ sexecs' = Append(sexecs, [id |-> id,
                                       state |-> "threw", outcome |-> "err"])
                       /\ scallers' = Append(scallers,
                              [id |-> id, window |-> window, exec |-> e,
                               started |-> TRUE, state |-> "rejected",
                               result |-> <<e, "err">>])

singleton(id, kind) == singletonCall(id, kind) /\ FrameSingleton

\* callers.forEach( caller => caller.resolve( result ) ), or reject( e ):
\* the callers that are given the outcome of the execution.
Distribute_first(callers) == {callers[1]}

Distribute(callers) == Range(callers)

\* The promise returned by op() settles: the caller list is deleted from the
\* map and the outcome is distributed to the callers on the list.
settle(e, outcome) ==
    /\ e \in DOMAIN sexecs
    /\ sexecs[e].state = "running"
    /\ LET id      == sexecs[e].id
           callers == SingletonCallers[id].callers
       IN /\ SingletonCallers' = [SingletonCallers EXCEPT ![id] = NoCallers]
          /\ scallers' = [c \in DOMAIN scallers |->
                IF c \in Distribute(callers)
                THEN [scallers[c] EXCEPT
                        !.state = IF outcome = "ok" THEN "resolved"
                                  ELSE "rejected",
                        !.result = <<e, outcome>>]
                ELSE scallers[c]]
    /\ sexecs' = [sexecs EXCEPT ![e].state = "settled", ![e].outcome = outcome]

SingletonOpSettles(e, outcome) == settle(e, outcome) /\ FrameSingleton

(***************************************************************************)
(* lib/async.js: cachingSingleton( cacheOptions )                          *)
(***************************************************************************)
\* The values an operation resolves to.  findErrorPageForCode resolves to a
\* path, or to undefined when there is no error page.
OpValues == {"page", "undefined"}

\* cache.get( id ): the stored value, undefined when there is none.
CacheGet(id) == IF cscache[id].has THEN cscache[id].value ELSE "undefined"

\* `if( result !== undefined ) return result;`
IsCached(id) == CacheGet(id) # "undefined"

\* A call of the function cachingSingleton returns, up to its first await:
\* a cached result is returned, otherwise singleton( id, op ) is called.
\* v is the value op resolves to if it is invoked and resolves.
CachingCall(id, kind, v) ==
    /\ Len(cscalls) < MaxCachingCalls
    /\ LET call == [id |-> id, afterSuccess |-> id \in completed,
                    opvalue |-> v]
       IN IF IsCached(id)
          THEN /\ cscalls' = Append(cscalls, call @@
                      [caller |-> 0, invoked |-> FALSE,
                       state |-> "returned", result |-> CacheGet(id)])
               /\ UNCHANGED svars
          ELSE /\ singletonCall(id, kind)
               /\ cscalls' = Append(cscalls, call @@
                      [caller |-> Len(scallers) + 1,
                       invoked |-> ~SingletonPending(id),
                       state |-> "awaiting", result |-> "none"])
    /\ UNCHANGED <<cscache, completed>>
    /\ FrameCaching

\* The promise of an operation invoked through the caching singleton
\* settles.
CachingOpSettles(e, outcome) ==
    /\ settle(e, outcome)
    /\ UNCHANGED cvars
    /\ FrameCaching

\* The value the execution e resolved to: the value of the op of the call
\* that invoked it.
ValueOf(e) ==
    LET k == CHOOSE k \in DOMAIN cscalls :
                 /\ cscalls[k].invoked
                 /\ scallers[cscalls[k].caller].exec = e
    IN cscalls[k].opvalue

\* `result = await singleton( id, op )` continues: with a result,
\* cache.set( id, result ) and return; with an error, throw.
CachingContinues(k) ==
    /\ k \in DOMAIN cscalls
    /\ cscalls[k].state = "awaiting"
    /\ LET c  == scallers[cscalls[k].caller]
           id == cscalls[k].id
       IN /\ c.state \in {"resolved", "rejected"}
          /\ IF c.state = "resolved"
             THEN /\ cscache' = [cscache EXCEPT ![id] =
                          [has |-> TRUE, value |-> ValueOf(c.exec)]]
                  /\ cscalls' = [cscalls EXCEPT ![k].state = "returned",
                                               ![k].result = ValueOf(c.exec)]
                  /\ completed' = completed \cup {id}
             ELSE /\ cscalls' = [cscalls EXCEPT ![k].state = "threw"]
                  /\ UNCHANGED <<cscache, completed>>
    /\ UNCHANGED svars
    /\ FrameCaching

\* The LRU drops the entry of id (maxAge has passed, or the cache is full).
Evict(id) ==
    /\ cscache[id].has
    /\ cscache' = [cscache EXCEPT ![id] = [has |-> FALSE, value |-> "undefined"]]
    /\ completed' = completed \ {id}
    /\ UNCHANGED <<cscalls, svars>>
    /\ FrameCaching

(***************************************************************************)
(* lib/async.js: workerQueue( count, fn )                                  *)
(***************************************************************************)
\* The while loop of worker(): shift requests off the queue and call fn for
\* each.  A call that returns (a promise or a value) is awaited: the worker
\* suspends with that request in flight.  A call that throws is caught, its
\* promise is rejected and the loop goes on.  With the queue empty the
\* worker ends, decrementing the active count.
RECURSIVE workerLoop(_, _, _)
workerLoop(items, rqs, act) ==
    IF items = <<>>
    THEN [queue |-> items, reqs |-> rqs, active |-> act - 1]
    ELSE LET i == Head(items) IN
         IF rqs[i].kind = "promise"
         THEN [queue |-> Tail(items),
               reqs  |-> [rqs EXCEPT ![i].state = "running"],
               active |-> act]
         ELSE workerLoop(Tail(items),
                         [rqs EXCEPT ![i].state = "rejected",
                                      ![i].result = <<i, "err">>],
                         act)

\* worker(): increment the active count, then run the loop.
worker(items, rqs, act) == workerLoop(items, rqs, act + 1)

\* `if( active < count )` in add().
UnderCount_always == TRUE

UnderCount_never == FALSE

UnderCount == active < PoolSize

\* add( args ): push the request, and start a new worker when fewer than
\* count workers are active.
add(kind) ==
    /\ Len(wreqs) < MaxReqs
    /\ LET i     == Len(wreqs) + 1
           reqs1 == Append(wreqs, [kind |-> kind, state |-> "queued",
                                   result |-> <<0, "none">>])
           items == Append(wqueue, i)
       IN IF UnderCount
          THEN LET r == worker(items, reqs1, active) IN
               /\ wqueue' = r.queue
               /\ wreqs' = r.reqs
               /\ active' = r.active
          ELSE /\ wqueue' = items
               /\ wreqs' = reqs1
               /\ UNCHANGED active
    /\ FrameWorker

\* The awaited fn call of a worker settles: the worker resolves or rejects
\* the request's promise and continues its loop.
WorkerFnSettles(i, outcome) ==
    /\ i \in DOMAIN wreqs
    /\ wreqs[i].state = "running"
    /\ LET reqs1 == [wreqs EXCEPT
                        ![i].state = IF outcome = "ok" THEN "resolved"
                                     ELSE "rejected",
                        ![i].result = <<i, outcome>>]
           r == workerLoop(wqueue, reqs1, active)
       IN /\ wqueue' = r.queue
          /\ wreqs' = r.reqs
          /\ active' = r.active
    /\ FrameWorker

(***************************************************************************)
(* The content repository, the filesets and the auth contexts              *)
(***************************************************************************)
\* The file paths that occur in the repository, in the order git lists them.
Paths     == {"a.html", "p.dat"}
PathOrder == <<"a.html", "p.dat">>
\* The branch of the request contexts.
Branch    == "master"

\* The paths of the $category and $latest control records.
CategoryPath(name) ==
    CASE name = "premium" -> ".locomote/category/premium"
      [] name = "pages"   -> ".locomote/category/pages"
      [] OTHER            -> ".locomote/category/files"
LatestPath   == ".locomote/commit/$latest"
ControlPaths == {CategoryPath("premium"), CategoryPath("pages"),
                 CategoryPath("files"), LatestPath}

\* The fileset definitions, in priority order.  DefaultFilesets declares no
\* restricted fileset; the table here has one in front of the defaults, the
\* case that Fileset.restricted and makeAuthContext provide for.
\* contains is the set of path
\* strings the fileset's include/exclude globs match: the last fileset's
\* include is **/*, which matches every path string.
\* processor is the kind of the fileset's processor: PageFSP for pages,
\* JSONDataFSP for json, the base FilesetProcessor otherwise.
Filesets == <<
    [category |-> "premium", restricted |-> TRUE,  contains |-> {"p.dat"},
     processor |-> "raw"],
    [category |-> "pages",   restricted |-> FALSE, contains |-> {"a.html"},
     processor |-> "html-rewrite"],
    [category |-> "json",    restricted |-> FALSE, contains |-> {},
     processor |-> "json-parse"],
    [category |-> "files",   restricted |-> FALSE,
     contains |-> Paths \cup ControlPaths \cup {Branch},
     processor |-> "raw"] >>

NoFileset == [category |-> "", restricted |-> FALSE, contains |-> {},
              processor |-> "raw"]

\* getFilesetForPath: the first fileset, in priority order, that contains
\* the path.
getFilesetForPath(path) ==
    LET owners == {i \in DOMAIN Filesets : path \in Filesets[i].contains}
    IN IF owners = {} THEN NoFileset
       ELSE Filesets[CHOOSE i \in owners : \A j \in owners : i <= j]

\* A record of a listing: a file record or a control record.
Rec(path, category, status, commit, name, value) ==
    [path |-> path, category |-> category, status |-> status,
     commit |-> commit, name |-> name, value |-> value]

NoRecord == Rec("", "", "none", 0, "", {})

\* FilesetProcessor.makeFileRecord, reached through the filesets service's
\* makeFileRecord( ctx, version, path, status ).
\* PageFSP.makeFileRecord and JSONDataFSP.makeFileRecord return false for
\* a record of status 'deleted'.
DropsDeleted_never(fileset) == FALSE

DropsDeleted(fileset) == fileset.processor \in {"html-rewrite", "json-parse"}

makeFileRecord(version, path, status) ==
    LET fileset == getFilesetForPath(path)
    IN IF fileset = NoFileset THEN NoRecord
       ELSE IF ~status /\ DropsDeleted(fileset) THEN NoRecord
       ELSE Rec(path, fileset.category,
                IF status THEN "published" ELSE "deleted", 0, "", {})

Users     == {"anon", "member"}
FilterIds == {"all", "html"}

\* authUser.groups
UserGroups(u) == IF u = "member" THEN {"premium"} ELSE {}

\* getRequestDerivedAuthSettings: a request with a filter parameter gets a
\* group named by the fingerprint of the filter, and the filter function.
FilterGroups(f) == IF f = "all" THEN {} ELSE {"filter:html"}

FilterAccepts(f, record) == f = "all" \/ record.path \in {"a.html"}

\* makeAuthContext: accessible is the user's groups, the request derived
\* groups and the unrestricted fileset categories; group is the fingerprint
\* of the sorted accessible names, modelled by the set of names itself.
makeAuthContext(u, f) ==
    LET groups     == UserGroups(u) \cup FilterGroups(f)
        accessible == groups \cup
            {Filesets[i].category :
                i \in {j \in DOMAIN Filesets : ~Filesets[j].restricted}}
    IN [user |-> u, accessible |-> accessible, group |-> accessible,
        filter |-> f]

\* `if( !accessible[category] ) return undefined` of filterAndRewrite.
IsAccessible_any(ctx, record) == TRUE

IsAccessible(ctx, record) == record.category \in ctx.accessible

\* `if( !filter( record ) ) return undefined` of filterAndRewrite.
PassesFilter_any(ctx, record) == TRUE

PassesFilter(ctx, record) == FilterAccepts(ctx.filter, record)

\* acm.filterAndRewrite( ctx, record ); the rewrite function of a fileset
\* without an acm function returns the record unchanged.
filterAndRewrite(ctx, record) ==
    IF ~IsAccessible(ctx, record) THEN NoRecord
    ELSE IF ~PassesFilter(ctx, record) THEN NoRecord
    ELSE record

\* The head commit of the branch.
head == Len(hist)

\* Git.isValidCommit
isValidCommit(since) == since \in 1..head

\* Git.listAllFilesAtCommit: the tracked paths at a commit.
listAllFilesAtCommit(commit) ==
    SelectSeq(PathOrder, LAMBDA p : hist[commit][p].live)

\* Git.readCurrentCommitForFile: the last commit up to version that touched
\* the path (0 for none).
readCurrentCommitForFile(path, version) ==
    IF path \in Paths THEN hist[version][path].commit ELSE 0

\* Git.listChangesSince: the name-status lines of the diff since..commit.
listChangesSince(commit, since) ==
    LET code(p) ==
            IF hist[since][p].live /\ ~hist[commit][p].live THEN "D"
            ELSE IF ~hist[since][p].live /\ hist[commit][p].live THEN "A"
            ELSE IF hist[since][p].live
                    /\ hist[since][p].commit # hist[commit][p].commit THEN "M"
            ELSE " "
        changed == SelectSeq(PathOrder, LAMBDA p : code(p) # " ")
    IN [i \in DOMAIN changed |-> [code |-> code(changed[i]),
                                  path |-> changed[i]]]

\* The elements of a sequence in order of first occurrence (the key order of
\* a JavaScript object filled in that order).
Dedup_keep(s) == s

RECURSIVE Dedup(_)
Dedup(s) ==
    IF s = <<>> THEN <<>>
    ELSE LET r == Dedup(SubSeq(s, 1, Len(s) - 1))
         IN IF s[Len(s)] \in Range(r) THEN r ELSE Append(r, s[Len(s)])

Max(S) == CHOOSE x \in S : \A y \in S : y <= x

(***************************************************************************)
(* lib/filedb/updates.js: the listing pipelines                            *)
(***************************************************************************)
\* `if( valid === 'I' )` of processUpdates.
IsInvalidFlag_notV(valid) == valid # "V"

IsInvalidFlag(valid) == valid = "I"

\* processUpdates( vars, outs, ins ): the records written to outs.
processUpdates(ctx, version, valid, ins) ==
    LET reset == IF IsInvalidFlag(valid)
                 THEN <<Rec("", "$control", "", 0, "reset", {})>>
                 ELSE <<>>
        each == [i \in DOMAIN ins |->
                    LET commit == readCurrentCommitForFile(ins[i].path, version)
                        record == filterAndRewrite(ctx, ins[i])
                    IN IF commit = 0 \/ record = NoRecord THEN NoRecord
                       ELSE [record EXCEPT !.commit = commit]]
        files   == SelectSeq(each, LAMBDA r : r # NoRecord)
        cats    == Dedup([i \in DOMAIN files |-> files[i].category])
        commits == Dedup([i \in DOMAIN files |-> files[i].commit])
        catRecs == [i \in DOMAIN cats |->
                      Rec(CategoryPath(cats[i]), "$category", "",
                          Max({files[j].commit : j \in
                                {k \in DOMAIN files :
                                    files[k].category = cats[i]}}),
                          cats[i], {})]
        acmRec  == Rec(".locomote/acm/group", "$acm", "", 0, "group",
                       ctx.group)
        commitRecs == [i \in DOMAIN commits |->
                      Rec(".locomote/commit", "$commit", "", 0, "", {commits[i]})]
        latest  == Rec(LatestPath, "$latest", "", version, "", {})
    IN reset \o files \o catRecs \o <<acmRec>> \o commitRecs \o <<latest>>

\* The make-records step of listAllFiles: a record for every tracked path
\* that a fileset owns.
allFileRecords(commit) ==
    LET each == [i \in DOMAIN listAllFilesAtCommit(commit) |->
                    makeFileRecord(commit, listAllFilesAtCommit(commit)[i], TRUE)]
    IN SelectSeq(each, LAMBDA r : r # NoRecord)

\* listAllFiles( ctx, commit ): its pipeline vars carry no valid flag.
listAllFiles(ctx, commit) ==
    processUpdates(ctx, commit, "undefined", allFileRecords(commit))

\* makeFileRecords of listUpdatesSince for one parsed item: the record at
\* commit, or else the record at since with the file inactive.
makeFileRecords(commit, since, item) ==
    LET record == makeFileRecord(commit, item.path, item.status)
    IN IF record = NoRecord
       THEN makeFileRecord(since, item.path, FALSE)
       ELSE record

\* The open and make-records steps of listUpdatesSince: with a valid since
\* the changed paths, parsed by nameStatusParser; otherwise all tracked
\* paths, parsed by nameOnlyParser.
updateRecords(commit, since, valid) ==
    LET items ==
            IF valid = "V"
            THEN [i \in DOMAIN listChangesSince(commit, since) |->
                    [path   |-> listChangesSince(commit, since)[i].path,
                     status |-> listChangesSince(commit, since)[i].code # "D"]]
            ELSE [i \in DOMAIN listAllFilesAtCommit(commit) |->
                    [path   |-> listAllFilesAtCommit(commit)[i],
                     status |-> TRUE]]
        each == [i \in DOMAIN items |-> makeFileRecords(commit, since, items[i])]
    IN SelectSeq(each, LAMBDA r : r # NoRecord)

\* listUpdatesSince( ctx, since, commit ) with the valid flag of its init.
listUpdatesSince(ctx, since, commit, valid) ==
    processUpdates(ctx, commit, valid, updateRecords(commit, since, valid))

\* The pipeline runtime: a step with a path template writes its output to
\* the file at the interpolated path; when the file exists already the step
\* is skipped and the file is the step's output.
ArtifactKey(template, commit, since, valid, group) ==
    [template |-> template, commit |-> commit, since |-> since,
     valid |-> valid, group |-> group]

stepOutput(key, computed) ==
    IF \E a \in artifacts : a.key = key
    THEN (CHOOSE a \in artifacts : a.key = key).out
    ELSE computed

\* A listAllFiles( ctx ) request: init reads the current commit; the
\* make-records step is cached under records-{commit}, processUpdates under
\* results-{commit}-{ctx.auth.group}.
ListAllFilesRequest(u, f) ==
    /\ Len(listings) < MaxListings
    /\ LET ctx     == makeAuthContext(u, f)
           commit  == head
           k1      == ArtifactKey("records", commit, 0, "undefined", {})
           records == stepOutput(k1, allFileRecords(commit))
           k2      == ArtifactKey("results", commit, 0, "undefined", ctx.group)
           out     == stepOutput(k2,
                        processUpdates(ctx, commit, "undefined", records))
       IN /\ artifacts' = artifacts \cup {[key |-> k1, out |-> records],
                                          [key |-> k2, out |-> out]}
          /\ listings' = Append(listings,
                [op |-> "listAllFiles", ctx |-> ctx, since |-> 0,
                 sinceValid |-> FALSE, commit |-> commit, out |-> out])
    /\ UNCHANGED hist
    /\ FrameListing

\* A listUpdatesSince( ctx, since ) request: init reads the current commit
\* and sets valid to 'V' or 'I'; the make-records step is cached under
\* records-{commit}-{since}-{valid}, processUpdates under
\* results-{commit}-{since}-{valid}-{ctx.auth.group}.
ListUpdatesSinceRequest(u, f, since) ==
    /\ Len(listings) < MaxListings
    /\ LET ctx     == makeAuthContext(u, f)
           commit  == head
           valid   == IF isValidCommit(since) THEN "V" ELSE "I"
           k1      == ArtifactKey("records-since", commit, since, valid, {})
           records == stepOutput(k1, updateRecords(commit, since, valid))
           k2      == ArtifactKey("results-since", commit, since, valid,
                                  ctx.group)
           out     == stepOutput(k2,
                        processUpdates(ctx, commit, valid, records))
       IN /\ artifacts' = artifacts \cup {[key |-> k1, out |-> records],
                                          [key |-> k2, out |-> out]}
          /\ listings' = Append(listings,
                [op |-> "listUpdatesSince", ctx |-> ctx, since |-> since,
                 sinceValid |-> isValidCommit(since), commit |-> commit,
                 out |-> out])
    /\ UNCHANGED hist
    /\ FrameListing

(***************************************************************************)
(* lib/filedb/fileinfo-db.js and lib/filedb/files.js                       *)
(***************************************************************************)
DBPaths == Paths \cup ControlPaths

NoDB == [entries |-> [p \in DBPaths |-> 0], startEpoch |-> 0, commit |-> 0,
         group |-> {}]

NoResult == [found |-> FALSE, records |-> <<>>]

\* The db object built by the population: path -> commit for every record of
\* the listing that has a commit and a path owned by a fileset.  startEpoch
\* is the number of update events emitted before listAllFiles was called.
buildDB(ctx, commit, startEpoch) ==
    LET records == listAllFiles(ctx, commit)
        usable  == {i \in DOMAIN records :
                        /\ records[i].commit # 0
                        /\ records[i].path \in DBPaths
                        /\ getFilesetForPath(records[i].path) # NoFileset}
    IN [entries |-> [p \in DBPaths |->
                        IF \E i \in usable : records[i].path = p
                        THEN records[CHOOSE i \in usable :
                                        records[i].path = p].commit
                        ELSE 0],
        startEpoch |-> startEpoch, commit |-> commit, group |-> ctx.group]

\* exists( ctx, path ), after getFileInfoDB returned db.
existsResult(path, db) ==
    [found |-> db.entries[path] # 0, records |-> <<>>]

\* getFileRecord( ctx, path ), after getFileInfoDB returned db.  init returns
\* false when the db has no entry for the path.  open calls
\* makeFileRecord( ctx, path, branch, true ), which the filesets service
\* takes as ( ctx, version, path, status ): the record is made for the path
\* string ctx.branch.  The last step applies filterAndRewrite.
getFileRecordResult(ctx, path, db) ==
    IF db.entries[path] = 0 THEN NoResult
    ELSE LET made   == makeFileRecord(path, Branch, TRUE)
             record == [made EXCEPT !.commit = db.entries[path]]
             out    == filterAndRewrite(ctx, record)
         IN [found |-> TRUE,
             records |-> IF out = NoRecord THEN <<>> ELSE <<out>>]

\* The request, completed with the db getFileInfoDB returned.
complete(req, db) ==
    [req EXCEPT !.state = "done", !.db = db,
                !.result = IF req.op = "exists"
                           THEN existsResult(req.path, db)
                           ELSE getFileRecordResult(req.ctx, req.path, db)]

FileOps == {"exists", "getFileRecord"}

NoPop == [state |-> "idle", ctx |-> makeAuthContext("anon", "all"),
          startEpoch |-> 0, commit |-> 0]

\* `const db = Cache.get( key ); if( db ) return db;` of getFileInfoDB.
CacheHit == Cache.has

\* A filedb request that starts with getFileInfoDB( ctx ).  With a cached db
\* the request goes on with it.  Otherwise the population singleton is
\* joined, or started with this request's context: the singleton's op calls
\* listAllFiles( ctx ) at once.
Request(u, f, op, path) ==
    /\ Len(reqs) < MaxRequests
    /\ LET r   == Len(reqs) + 1
           req == [ctx |-> makeAuthContext(u, f), op |-> op, path |-> path,
                   callEpoch |-> epoch, state |-> "waiting", db |-> NoDB,
                   result |-> NoResult]
       IN IF CacheHit
          THEN /\ reqs' = Append(reqs, complete(req, Cache.db))
               /\ UNCHANGED <<fiCallers, pop>>
          ELSE /\ reqs' = Append(reqs, req)
               /\ IF fiCallers.exists
                  THEN /\ fiCallers' = [fiCallers EXCEPT !.callers = Append(@, r)]
                       /\ UNCHANGED pop
                  ELSE /\ fiCallers' = [exists |-> TRUE, callers |-> <<r>>]
                       /\ pop' = [state |-> "started", ctx |-> req.ctx,
                                  startEpoch |-> epoch, commit |-> 0]
    /\ UNCHANGED <<epoch, Cache, hist>>
    /\ FrameFileInfo

\* The init step of the population's listAllFiles reads the branch's current
\* commit.
PopulationReadsCommit ==
    /\ pop.state = "started"
    /\ pop' = [pop EXCEPT !.state = "listed", !.commit = head]
    /\ UNCHANGED <<epoch, Cache, fiCallers, reqs, hist>>
    /\ FrameFileInfo

\* The population has read the listing: Cache.set( key, db ), and the
\* singleton resolves every caller on its list with db.
PopulationCompletes ==
    /\ pop.state = "listed"
    /\ LET db == buildDB(pop.ctx, pop.commit, pop.startEpoch)
       IN /\ Cache' = [has |-> TRUE, db |-> db]
          /\ reqs' = [r \in DOMAIN reqs |->
                        IF r \in Range(fiCallers.callers)
                        THEN complete(reqs[r], db) ELSE reqs[r]]
    /\ fiCallers' = NoCallers
    /\ pop' = NoPop
    /\ UNCHANGED <<epoch, hist>>
    /\ FrameFileInfo

\* The population fails (listAllFiles or reading its result rejects): the
\* singleton rejects every caller on its list.
PopulationFails ==
    /\ pop.state \in {"started", "listed"}
    /\ reqs' = [r \in DOMAIN reqs |->
                  IF r \in Range(fiCallers.callers)
                  THEN [reqs[r] EXCEPT !.state = "failed"] ELSE reqs[r]]
    /\ fiCallers' = NoCallers
    /\ pop' = NoPop
    /\ UNCHANGED <<epoch, Cache, hist>>
    /\ FrameFileInfo

\* builder.on( 'content-repo-update' ) of the file-info DB: Cache.del( key ).
RepoUpdate ==
    /\ epoch < MaxEvents
    /\ epoch' = epoch + 1
    /\ Cache' = [has |-> FALSE, db |-> NoDB]
    /\ UNCHANGED <<fiCallers, pop, reqs, hist>>
    /\ FrameFileInfo

\* A commit is pushed to the branch: it adds or modifies a path, or deletes
\* a tracked path.
Push(p, live) ==
    /\ head < MaxCommits
    /\ live \/ hist[head][p].live
    /\ hist' = Append(hist, [hist[head] EXCEPT
                                ![p] = [live |-> live, commit |-> head + 1]])
    /\ UNCHANGED fvars
    /\ FrameFileInfo

InitCommon ==
    /\ Queues = [n \in QueueNames |-> NoQueue]
    /\ qops = <<>>
    /\ SingletonCallers = [id \in OpIds |-> [exists |-> FALSE, callers |-> <<>>]]
    /\ sexecs = <<>>
    /\ scallers = <<>>
    /\ wqueue = <<>>
    /\ active = 0
    /\ wreqs = <<>>
    /\ hist = <<[p \in Paths |-> [live |-> TRUE, commit |-> 1]]>>
    /\ epoch = 0
    /\ Cache = [has |-> FALSE, db |-> NoDB]
    /\ fiCallers = NoCallers
    /\ pop = NoPop
    /\ reqs = <<>>
    /\ artifacts = {}
    /\ listings = <<>>
    /\ rphase = "searching"
    /\ nrec = 0
    /\ rqueue = NoQueue
    /\ rops = <<>>
    /\ res = <<>>
    /\ count = 0
    /\ iqueue = NoQueue
    /\ units = <<>>
    /\ txn = [open |-> FALSE, owner |-> 0]
    /\ scopes = [b \in IndexedBranches |-> [rows |-> 0, since |-> 0]]
    /\ cscache = [id \in OpIds |-> [has |-> FALSE, value |-> "undefined"]]
    /\ cscalls = <<>>
    /\ completed = {}
    /\ ManifestCache = [d \in RepoDirs |-> 0]
    /\ mobjs = <<>>
    /\ CommitCache = [d \in RepoDirs |-> 0]
    /\ mver = [d \in RepoDirs |-> 1]
    /\ mcalls = <<>>
    /\ Synced = [k \in QueryKeys |-> {}]
    /\ filedbs = [k \in QueryKeys |-> [g \in QueryGroups |-> 0]]
    /\ qhead = [k \in QueryKeys |-> 1]
    /\ qreqs = <<>>
    /\ branchDB = <<"public">>
    /\ hreqs = <<>>
    /\ nkind = "std"
    /\ nreps = <<>>
    /\ nchoices = <<>>
    /\ scfiles = [p \in {"a.json", "b.json"} |->
                     [size |-> 0, atime |-> 0, mtime |-> 0]]
    /\ sclock = 0
    /\ scprunes = <<>>
    /\ sfiles = <<>>
    /\ stext = <<>>
    /\ sapplied = [count |-> 0, last |-> <<>>]
    /\ AuthenticationUsers = {}
    /\ authcalls = <<>>
    /\ ResourcesCache = [k \in {"acme/site/master", "acme/site/dev"} |-> 0]
    /\ gcalls = <<>>
    /\ acmcalls = <<>>
    /\ fartifacts = {}
    /\ fserved = [count |-> 0, last |-> <<>>]
    /\ openq = NoQueue
    /\ openops = <<>>
    /\ opens = <<>>

NoScan == [pc |-> "idle", idx |-> 1, last |-> 0, unbuilt |-> <<>>,
           seen |-> [b \in BuildBranches |->
                        [seen |-> FALSE, exists |-> FALSE, stale |-> FALSE]],
           queued |-> {}]

InitOthers ==
    /\ InitCommon
    /\ disabled = FALSE
    /\ inProfile = [b \in BuildBranches |-> TRUE]
    /\ bheads = [b \in BuildBranches |-> 1]
    /\ buildb = [b \in BuildBranches |-> 0]
    /\ bqueue = NoQueue
    /\ builds = <<>>
    /\ scan = NoScan
    /\ excerpt = [length |-> 0, fmidx |-> 0, window |-> <<>>]

InitQueue == InitOthers

NextQueue ==
    \/ \E name \in QueueNames, kind \in FnKinds : queue(name, kind)
    \/ \E i \in 1..MaxOps, outcome \in Outcomes : QueueOpSettles(i, outcome)

SpecQueue == InitQueue /\ [][NextQueue]_vars

\* The queues when every promise an operation returns eventually settles.
SpecQueueFair ==
    /\ InitQueue
    /\ [][NextQueue]_vars
    /\ \A i \in 1..MaxOps :
          WF_vars(\E outcome \in Outcomes : QueueOpSettles(i, outcome))

InitSingleton == InitOthers

NextSingleton ==
    \/ \E id \in OpIds, kind \in FnKinds : singleton(id, kind)
    \/ \E e \in 1..MaxCalls, outcome \in Outcomes : SingletonOpSettles(e, outcome)

SpecSingleton == InitSingleton /\ [][NextSingleton]_vars

InitWorker == InitOthers

NextWorker ==
    \/ \E kind \in FnKinds : add(kind)
    \/ \E i \in 1..MaxReqs, outcome \in Outcomes : WorkerFnSettles(i, outcome)

SpecWorker == InitWorker /\ [][NextWorker]_vars

\* The worker queue when every fn invocation eventually settles: the
\* continuation of a worker awaiting a settled promise is always run.
SpecWorkerFair ==
    /\ InitWorker
    /\ [][NextWorker]_vars
    /\ \A i \in 1..MaxReqs :
          WF_vars(\E outcome \in Outcomes : WorkerFnSettles(i, outcome))

InitFileInfo == InitOthers

NextFileInfo ==
    \/ \E u \in Users, f \in FilterIds, op \in FileOps, path \in Paths :
            Request(u, f, op, path)
    \/ PopulationReadsCommit
    \/ PopulationCompletes
    \/ PopulationFails
    \/ RepoUpdate
    \/ \E p \in Paths, live \in BOOLEAN : Push(p, live)

SpecFileInfo == InitFileInfo /\ [][NextFileInfo]_vars

(***************************************************************************)
(* lib/search/httpapi.js: the search request handler                       *)
(***************************************************************************)
\* queue( queueName, fn ) applied to a queue and a list of operations kept
\* by the caller: the operation is appended and, when it is the only item,
\* next() runs.
submit(q, ops, op) ==
    LET i     == Len(ops) + 1
        ops1  == Append(ops, op)
        items == Append(q.items, i)
    IN IF IsFirstItem(items)
       THEN next(items, ops1)
       ELSE [queue |-> [exists |-> TRUE, items |-> items], ops |-> ops1]

ResponseOp(role) ==
    [name |-> "ResponseQueue", kind |-> "promise", state |-> "queued",
     result |-> "none", starts |-> 0, role |-> role]

\* `await server.search( .. )` resolves: the handler starts streaming the
\* result file.
SearchResolves ==
    /\ rphase = "searching"
    /\ rphase' = "streaming"
    /\ UNCHANGED <<nrec, rqueue, rops, res, count>>
    /\ FrameResponse

\* `await server.search( .. )` rejects: the outer catch ends the response
\* with an empty array.
SearchRejects ==
    /\ rphase = "searching"
    /\ rphase' = "ended"
    /\ res' = Append(res, "[]")
    /\ UNCHANGED <<nrec, rqueue, rops, count>>
    /\ FrameResponse

\* streamJSONFile passes the next record to the callback; an accessible
\* record gets a writer operation on the response queue.  A writer started
\* by the queue runs to its `await cneg.isPreferredPathForRequest( .. )`.
StreamRecord(accessible) ==
    /\ rphase = "streaming"
    /\ nrec < MaxRecords
    /\ nrec' = nrec + 1
    /\ IF accessible
       THEN LET r == submit(rqueue, rops, ResponseOp("writer")) IN
            /\ rqueue' = r.queue
            /\ rops' = r.ops
       ELSE UNCHANGED <<rqueue, rops>>
    /\ UNCHANGED <<rphase, res, count>>
    /\ FrameResponse

\* isPreferredPathForRequest resolves and the writer continues: for a
\* preferred path it writes '[' or ',' and the record, and counts it.
WriterResumes(i, valid) ==
    /\ i \in DOMAIN rops
    /\ rops[i].role = "writer"
    /\ rops[i].state = "running"
    /\ rops' = [rops EXCEPT ![i].state = "settled", ![i].result = "ok"]
    /\ IF valid
       THEN /\ res' = res \o <<IF count = 0 THEN "[" ELSE ",", "record">>
            /\ count' = count + 1
       ELSE UNCHANGED <<res, count>>
    /\ UNCHANGED <<rphase, nrec, rqueue>>
    /\ FrameResponse

\* streamJSONFile settles (a rejection is caught and logged): the handler
\* puts the closing operation on the response queue.  The closing operation
\* has no await: once started it ends the response with '[]' or ']'.
StreamEnds ==
    /\ rphase = "streaming"
    /\ LET i == Len(rops) + 1
           r == submit(rqueue, rops, ResponseOp("closer"))
       IN /\ rqueue' = r.queue
          /\ rops' = r.ops
          /\ IF r.ops[i].state = "running"
             THEN /\ res' = Append(res, IF count = 0 THEN "[]" ELSE "]")
                  /\ rphase' = "ended"
             ELSE /\ res' = res
                  /\ rphase' = "closing"
    /\ UNCHANGED <<nrec, count>>
    /\ FrameResponse

\* The promise of the closing operation resolves.
CloserSettles(i) ==
    /\ i \in DOMAIN rops
    /\ rops[i].role = "closer"
    /\ rops[i].state = "running"
    /\ rops' = [rops EXCEPT ![i].state = "settled", ![i].result = "ok"]
    /\ UNCHANGED <<rphase, nrec, rqueue, res, count>>
    /\ FrameResponse

(***************************************************************************)
(* lib/search/indexer.js: updateSearchIndex and currentStateIndex          *)
(* Each step below is the code between two awaits of one indexing unit.    *)
(* The handlers of the update stream are registered after the statement    *)
(* that throws in every run, so they have no action.                       *)
(***************************************************************************)
IndexerOp(branch) ==
    [name |-> "sh.locomote.search.indexer", kind |-> "promise",
     state |-> "queued", result |-> "none", starts |-> 0, branch |-> branch,
     pc |-> "selectScope", since |-> 0, commit |-> 0]

\* UpdateQueue( info ), called at startup for every public branch, on a
\* content-repo-update event and by reindex(): opqueue puts
\* updateSearchIndex( info ) on the indexer queue.  A unit started by the
\* queue runs to the SELECT of ensureScope.
UpdateQueue(branch) ==
    /\ Len(units) < MaxUnits
    /\ LET r == submit(iqueue, units, IndexerOp(branch)) IN
       /\ iqueue' = r.queue
       /\ units' = r.ops
    /\ UNCHANGED <<txn, scopes>>
    /\ FrameIndexer

AtStep(i, pc) ==
    /\ i \in DOMAIN units
    /\ units[i].state = "running"
    /\ units[i].pc = pc

\* ensureScope: the SELECT returns; with a row the Scope is made from it,
\* without one the INSERT is issued.
ScopeSelected(i) ==
    /\ AtStep(i, "selectScope")
    /\ units' = IF scopes[units[i].branch].rows > 0
                THEN [units EXCEPT ![i].pc = "getFilesets",
                                   ![i].since = scopes[units[i].branch].since]
                ELSE [units EXCEPT ![i].pc = "insertScope"]
    /\ UNCHANGED <<iqueue, txn, scopes>>
    /\ FrameIndexer

\* ensureScope: the INSERT returns; the Scope is made from the new row,
\* which has no since.
ScopeInserted(i) ==
    /\ AtStep(i, "insertScope")
    /\ scopes' = [scopes EXCEPT ![units[i].branch].rows = @ + 1]
    /\ units' = [units EXCEPT ![i].pc = "getFilesets"]
    /\ UNCHANGED <<iqueue, txn>>
    /\ FrameIndexer

\* filesets.getFilesets settles.  On success currentStateIndex is called
\* and issues BEGIN TRANSACTION; a failure is caught by updateSearchIndex
\* (error [A]) and the unit returns.
FilesetsLoaded(i, outcome) ==
    /\ AtStep(i, "getFilesets")
    /\ units' = IF outcome = "ok"
                THEN [units EXCEPT ![i].pc = "begin"]
                ELSE [units EXCEPT ![i].pc = "done", ![i].state = "settled",
                                   ![i].result = "ok"]
    /\ UNCHANGED <<iqueue, txn, scopes>>
    /\ FrameIndexer

\* scope.startTransaction() settles.  The connection is shared by all
\* scopes: BEGIN fails when a transaction is open.  The catch block of
\* currentStateIndex names a variable `err` that is not declared: the
\* handler throws before it queues the rollback and before resolve(), and
\* the unit never settles.
TransactionStarted(i) ==
    /\ AtStep(i, "begin")
    /\ IF txn.open
       THEN /\ units' = [units EXCEPT ![i].pc = "hung"]
            /\ txn' = txn
       ELSE /\ units' = [units EXCEPT ![i].pc = "readHead"]
            /\ txn' = [open |-> TRUE, owner |-> i]
    /\ UNCHANGED <<iqueue, scopes>>
    /\ FrameIndexer

\* Git.getCurrentCommitHash settles.  A failure lands in the catch block.
\* On success Git.listUpdatesSinceCommit, an async function, returns a
\* promise; updates.on( .. ) throws and lands in the catch block as well.
HeadRead(i, outcome) ==
    /\ AtStep(i, "readHead")
    /\ units' = [units EXCEPT ![i].pc = "hung",
                              ![i].commit = IF outcome = "ok" THEN 1 ELSE 0]
    /\ UNCHANGED <<iqueue, txn, scopes>>
    /\ FrameIndexer

InitListing == InitOthers

\* The since arguments of the requests: commit numbers, of which 0 and those
\* beyond the head commit name no commit.
Sinces == 0..MaxCommits

NextListing ==
    \/ \E u \in Users, f \in FilterIds : ListAllFilesRequest(u, f)
    \/ \E u \in Users, f \in FilterIds, since \in Sinces :
            ListUpdatesSinceRequest(u, f, since)
    \/ \E p \in Paths, live \in BOOLEAN : Push(p, live)

SpecListing == InitListing /\ [][NextListing]_vars

InitCaching == InitOthers

NextCaching ==
    \/ \E id \in OpIds, kind \in FnKinds, v \in OpValues : CachingCall(id, kind, v)
    \/ \E e \in 1..MaxCachingCalls, outcome \in Outcomes :
            CachingOpSettles(e, outcome)
    \/ \E k \in 1..MaxCachingCalls : CachingContinues(k)
    \/ \E id \in OpIds : Evict(id)

SpecCaching == InitCaching /\ [][NextCaching]_vars

InitResponse == InitOthers

NextResponse ==
    \/ SearchResolves
    \/ SearchRejects
    \/ \E accessible \in BOOLEAN : StreamRecord(accessible)
    \/ \E i \in 1..(MaxRecords + 1), valid \in BOOLEAN : WriterResumes(i, valid)
    \/ StreamEnds
    \/ \E i \in 1..(MaxRecords + 1) : CloserSettles(i)

SpecResponse == InitResponse /\ [][NextResponse]_vars

InitIndexer == InitOthers

NextIndexer ==
    \/ \E b \in IndexedBranches : UpdateQueue(b)
    \/ \E i \in 1..MaxUnits : ScopeSelected(i)
    \/ \E i \in 1..MaxUnits : ScopeInserted(i)
    \/ \E i \in 1..MaxUnits, outcome \in Outcomes : FilesetsLoaded(i, outcome)
    \/ \E i \in 1..MaxUnits : TransactionStarted(i)
    \/ \E i \in 1..MaxUnits, outcome \in Outcomes : HeadRead(i, outcome)

SpecIndexer == InitIndexer /\ [][NextIndexer]_vars

\* The indexer when every database, fileset and git call of a unit
\* eventually settles.
SpecIndexerFair ==
    /\ InitIndexer
    /\ [][NextIndexer]_vars
    /\ \A i \in 1..MaxUnits :
          /\ WF_vars(ScopeSelected(i))
          /\ WF_vars(ScopeInserted(i))
          /\ WF_vars(\E outcome \in Outcomes : FilesetsLoaded(i, outcome))
          /\ WF_vars(TransactionStarted(i))
          /\ WF_vars(\E outcome \in Outcomes : HeadRead(i, outcome))

(***************************************************************************)
(* lib/builder: the build queue (doBuild) and the startup scan (run)       *)
(***************************************************************************)
BuildCodes == {0, 1}    \* exit codes of the external build command

\* opqueue('sh.locomote.builder', doBuild): the item put on the queue.
BuildOp(branch, by) ==
    [name |-> "sh.locomote.builder", kind |-> "promise",
     state |-> "queued", result |-> "none", starts |-> 0, branch |-> branch,
     by |-> by, pc |-> "start", last |-> 0, commit |-> 0, ran |-> FALSE,
     code |-> -1, wrote |-> 0, emitted |-> FALSE]

\* doBuild returns (also from its catch block): the queue's promise resolves.
BuildDone(op) == [op EXCEPT !.pc = "done", !.state = "resolved",
                            !.result = "ok"]

\* doBuild( info ) up to its first await: `if( disabled ) return;`, then
\* Git.getCurrentCommitInfo is called and buildb.getLastBuildCommit reads
\* the build DB (it has no await of its own, so the read happens in the
\* call).
doBuildStart(op, db) ==
    IF disabled THEN BuildDone(op)
    ELSE [op EXCEPT !.pc = "readCommits", !.last = db[op.branch]]

\* The operations the queue has just started run doBuild's first part.
startBuilds(ops, db) ==
    [i \in 1..Len(ops) |->
        IF ops[i].state = "running" /\ ops[i].pc = "start"
        THEN doBuildStart(ops[i], db) ELSE ops[i]]

\* server._buildQueue( info ): one more item on the build queue.
buildQueue(q, ops, branch, by) ==
    LET r == submit(q, ops, BuildOp(branch, by))
    IN [queue |-> r.queue, ops |-> startBuilds(r.ops, buildb)]

\* A build notification (or the workflow) queues a build of a branch.
BuildQueue(branch) ==
    /\ Len(builds) < MaxBuilds
    /\ LET r == buildQueue(bqueue, builds, branch, "notify") IN
       /\ bqueue' = r.queue
       /\ builds' = r.ops
    /\ UNCHANGED <<disabled, inProfile, bheads, buildb, scan>>
    /\ FrameBuilder

BuildAt(i, pc) ==
    /\ i \in 1..Len(builds)
    /\ builds[i].state = "running"
    /\ builds[i].pc = pc

\* `await Promise.all([ Git.getCurrentCommitInfo(...), lastCommit ])`
\* completes: without a branch the git command fails and the catch block
\* ends the build; `if( commit === lastCommit ) return;`; otherwise
\* manifests.load is called.
CommitsRead(i) ==
    /\ BuildAt(i, "readCommits")
    /\ LET op == builds[i]
           commit == bheads[op.branch]
       IN builds' = [builds EXCEPT ![i] =
            IF commit = 0 THEN BuildDone(op)
            ELSE IF commit = op.last
                 THEN BuildDone([op EXCEPT !.commit = commit])
                 ELSE [op EXCEPT !.commit = commit, !.pc = "loadManifest"]]
    /\ UNCHANGED <<disabled, inProfile, bheads, buildb, bqueue, scan>>
    /\ FrameBuilder

\* `await manifests.load( repoPath, branch )` settles; the profile's
\* buildable list is tested (`if( !buildable.includes( branch ) ) return;`)
\* and Utils.ensureDir is called.
ManifestLoaded(i, outcome) ==
    /\ BuildAt(i, "loadManifest")
    /\ LET op == builds[i] IN
       builds' = [builds EXCEPT ![i] =
            IF outcome = "err" \/ ~inProfile[op.branch] THEN BuildDone(op)
            ELSE [op EXCEPT !.pc = "ensureDir"]]
    /\ UNCHANGED <<disabled, inProfile, bheads, buildb, bqueue, scan>>
    /\ FrameBuilder

\* `await Utils.ensureDir( buildDir )` settles; exec() spawns the build
\* command.
WorkspaceEnsured(i, outcome) ==
    /\ BuildAt(i, "ensureDir")
    /\ LET op == builds[i] IN
       builds' = [builds EXCEPT ![i] =
            IF outcome = "err" THEN BuildDone(op)
            ELSE [op EXCEPT !.pc = "exec", !.ran = TRUE]]
    /\ UNCHANGED <<disabled, inProfile, bheads, buildb, bqueue, scan>>
    /\ FrameBuilder

\* `if( code === 0 )`
BuildSucceeded_any(code) == TRUE

BuildSucceeded(code) == code = 0

\* buildb.addBuildCompletion( account, repo, branch, commit )
addBuildCompletion(db, branch, commit) == [db EXCEPT ![branch] = commit]

\* The build command closes with an exit code: on success the completion is
\* recorded in the build DB and the content-build event is emitted.
ExecCloses(i, code) ==
    /\ BuildAt(i, "exec")
    /\ LET op == builds[i] IN
       IF BuildSucceeded(code)
       THEN /\ buildb' = addBuildCompletion(buildb, op.branch, op.commit)
            /\ builds' = [builds EXCEPT ![i] =
                 BuildDone([op EXCEPT !.code = code, !.wrote = op.commit,
                                      !.emitted = TRUE])]
       ELSE /\ buildb' = buildb
            /\ builds' = [builds EXCEPT ![i] =
                 BuildDone([op EXCEPT !.code = code])]
    /\ UNCHANGED <<disabled, inProfile, bheads, bqueue, scan>>
    /\ FrameBuilder

\* The build command cannot be spawned (proc 'error'): exec() rejects and
\* the catch block ends the build.
ExecFails(i) ==
    /\ BuildAt(i, "exec")
    /\ builds' = [builds EXCEPT ![i] = BuildDone(builds[i])]
    /\ UNCHANGED <<disabled, inProfile, bheads, buildb, bqueue, scan>>
    /\ FrameBuilder

\* A commit on a build source branch (the first one creates the branch).
SourceCommit(branch) ==
    /\ bheads[branch] < MaxHead
    /\ bheads' = [bheads EXCEPT ![branch] = @ + 1]
    /\ UNCHANGED <<disabled, inProfile, buildb, bqueue, builds, scan>>
    /\ FrameBuilder

\* Git.getCurrentCommitInfo( repoPath, branch, true ): `ok = (code => code
\* == 0)` stores a function, so `!ok` is false whatever TestForBranch
\* returned; for a branch that does not exist the CurrentCommit command
\* fails and the function throws.
getCurrentCommitInfo(branch) ==
    IF bheads[branch] = 0 THEN [threw |-> TRUE, commit |-> 0]
    ELSE [threw |-> FALSE, commit |-> bheads[branch]]

\* run( server, branchdb, buildb ) up to the await of its first iteration.
ScanStarts ==
    /\ scan.pc = "idle"
    /\ scan' = [scan EXCEPT !.pc = "scanning", !.idx = 1,
                            !.last = buildb[BuildOrder[1]]]
    /\ UNCHANGED <<disabled, inProfile, bheads, buildb, bqueue, builds>>
    /\ FrameBuilder

RECURSIVE queueAll(_, _, _)
\* unbuilt.forEach( item => server._buildQueue( item ) )
queueAll(unbuilt, q, ops) ==
    IF unbuilt = <<>> THEN [queue |-> q, ops |-> ops]
    ELSE LET r == buildQueue(q, ops, Head(unbuilt), "scan")
         IN queueAll(Tail(unbuilt), r.queue, r.ops)

\* The Promise.all of one iteration settles.  A rejection leaves run();
\* otherwise the branch is pushed on unbuilt when `latest.commit !==
\* lastBuilt`, and after the last iteration the unbuilt branches are queued.
ScanReads ==
    /\ scan.pc = "scanning"
    /\ LET b      == BuildOrder[scan.idx]
           latest == getCurrentCommitInfo(b)
           stale  == latest.commit # scan.last
           seen1  == [scan.seen EXCEPT ![b] =
                        [seen |-> TRUE, exists |-> bheads[b] # 0,
                         stale |-> stale]]
           unbuilt1 == IF stale THEN Append(scan.unbuilt, b)
                       ELSE scan.unbuilt
       IN IF latest.threw
          THEN /\ scan' = [scan EXCEPT !.pc = "failed", !.seen = seen1]
               /\ UNCHANGED <<bqueue, builds>>
          ELSE IF scan.idx < Len(BuildOrder)
          THEN /\ scan' = [scan EXCEPT !.idx = @ + 1, !.seen = seen1,
                              !.unbuilt = unbuilt1,
                              !.last = buildb[BuildOrder[scan.idx + 1]]]
               /\ UNCHANGED <<bqueue, builds>>
          ELSE LET r == queueAll(unbuilt1, bqueue, builds) IN
               /\ scan' = [scan EXCEPT !.pc = "done", !.seen = seen1,
                              !.unbuilt = unbuilt1,
                              !.queued = Range(unbuilt1)]
               /\ bqueue' = r.queue
               /\ builds' = r.ops
    /\ UNCHANGED <<disabled, inProfile, bheads, buildb>>
    /\ FrameBuilder

InitBuilder ==
    /\ InitCommon
    /\ disabled \in BOOLEAN
    /\ inProfile \in [BuildBranches -> BOOLEAN]
    /\ bheads \in [BuildBranches -> 0..1]
    /\ buildb \in [BuildBranches -> 0..1]
    /\ \A b \in BuildBranches : buildb[b] <= bheads[b]
    /\ bqueue = NoQueue
    /\ builds = <<>>
    /\ scan = NoScan
    /\ excerpt = [length |-> 0, fmidx |-> 0, window |-> <<>>]

NextBuilder ==
    \/ \E b \in BuildBranches : BuildQueue(b)
    \/ \E i \in 1..(MaxBuilds + 2) : CommitsRead(i)
    \/ \E i \in 1..(MaxBuilds + 2), outcome \in Outcomes :
            ManifestLoaded(i, outcome)
    \/ \E i \in 1..(MaxBuilds + 2), outcome \in Outcomes :
            WorkspaceEnsured(i, outcome)
    \/ \E i \in 1..(MaxBuilds + 2), code \in BuildCodes : ExecCloses(i, code)
    \/ \E i \in 1..(MaxBuilds + 2) : ExecFails(i)
    \/ \E b \in BuildBranches : SourceCommit(b)
    \/ ScanStarts
    \/ ScanReads

SpecBuilder == InitBuilder /\ [][NextBuilder]_vars

(***************************************************************************)
(* lib/manifests: load, getCommitHash and the content-repo-update handler  *)
(***************************************************************************)
\* core.makeBuildInfo( account, repo, branch ): the payload of a
\* content-repo-update event; dir is core.makeContentRepoPath(...).
makeBuildInfo(dir, branch) ==
    [key |-> <<dir, branch>>, account |-> "acme", repo |-> "site",
     branch |-> branch, path |-> "acme/site.git", absPath |-> dir,
     repoPath |-> dir]

\* Reading a property of an object: undefined when the object has none.
Property(object, name) ==
    IF name \in DOMAIN object THEN object[name] ELSE "undefined"

\* invalidateCache( repoDir ): ManifestCache.del, CommitCache.del.
invalidateCache(cache, repoDir) ==
    [d \in RepoDirs |-> IF d = repoDir THEN 0 ELSE cache[d]]

NoManifests == [b \in ManifestBranches |-> 0]

ManifestCall(op, dir, branch) ==
    [op |-> op, dir |-> dir, branch |-> branch, state |-> "reading",
     obj |-> 0, hit |-> FALSE, since |-> mver[dir], val |-> 0, result |-> 0]

\* load( repoDir, branch ) up to `await loadJSON(...)`: the cached branches
\* object is looked up (an empty one is stored on a miss) and a cached
\* manifest is returned.
load(dir, branch) ==
    /\ Len(mcalls) < MaxManifestCalls
    /\ LET call == ManifestCall("load", dir, branch) IN
       IF ManifestCache[dir] # 0
       THEN LET obj == ManifestCache[dir]
                manifest == mobjs[obj][branch]
            IN /\ mcalls' = Append(mcalls,
                    IF manifest # 0
                    THEN [call EXCEPT !.obj = obj, !.state = "done",
                                      !.hit = TRUE, !.result = manifest]
                    ELSE [call EXCEPT !.obj = obj])
               /\ UNCHANGED <<ManifestCache, mobjs>>
       ELSE /\ mobjs' = Append(mobjs, NoManifests)
            /\ ManifestCache' = [ManifestCache EXCEPT ![dir] = Len(mobjs) + 1]
            /\ mcalls' = Append(mcalls, [call EXCEPT !.obj = Len(mobjs) + 1])
    /\ UNCHANGED <<CommitCache, mver>>
    /\ FrameManifests

\* getCommitHash( repoDir ) up to `await Git.getLastUpdateCommitInfoForFile`.
getCommitHash(dir) ==
    /\ Len(mcalls) < MaxManifestCalls
    /\ LET call == ManifestCall("getCommitHash", dir, "master")
           cached == CommitCache[dir]
       IN mcalls' = Append(mcalls,
             IF cached # 0
             THEN [call EXCEPT !.state = "done", !.hit = TRUE,
                               !.result = cached]
             ELSE call)
    /\ UNCHANGED <<ManifestCache, mobjs, CommitCache, mver>>
    /\ FrameManifests

\* loadJSON / git reads the manifest as the repository holds it now.
ManifestRead(k) ==
    /\ k \in 1..Len(mcalls)
    /\ mcalls[k].state = "reading"
    /\ mcalls' = [mcalls EXCEPT ![k].state = "read",
                                ![k].val = mver[mcalls[k].dir]]
    /\ UNCHANGED <<ManifestCache, mobjs, CommitCache, mver>>
    /\ FrameManifests

\* load after its await: `branches[branch] = manifest; return manifest;`
\* (branches is the object looked up or stored before the await).
LoadContinues(k) ==
    /\ k \in 1..Len(mcalls)
    /\ mcalls[k].state = "read"
    /\ mcalls[k].op = "load"
    /\ LET c == mcalls[k] IN
       /\ mobjs' = [mobjs EXCEPT ![c.obj][c.branch] = c.val]
       /\ mcalls' = [mcalls EXCEPT ![k].state = "done", ![k].result = c.val]
    /\ UNCHANGED <<ManifestCache, CommitCache, mver>>
    /\ FrameManifests

\* getCommitHash after its await: `CommitCache.set( repoDir, commit )`.
CommitHashContinues(k) ==
    /\ k \in 1..Len(mcalls)
    /\ mcalls[k].state = "read"
    /\ mcalls[k].op = "getCommitHash"
    /\ LET c == mcalls[k] IN
       /\ CommitCache' = [CommitCache EXCEPT ![c.dir] = c.val]
       /\ mcalls' = [mcalls EXCEPT ![k].state = "done", ![k].result = c.val]
    /\ UNCHANGED <<ManifestCache, mobjs, mver>>
    /\ FrameManifests

\* The repository's manifest is updated and the builder emits
\* content-repo-update; the handler does `let { repoDir } = info;
\* invalidateCache( repoDir );`.
ManifestRepoUpdate(dir, branch) ==
    /\ mver[dir] < 1 + MaxManifestUpdates
    /\ mver' = [mver EXCEPT ![dir] = @ + 1]
    /\ LET info    == makeBuildInfo(dir, branch)
           repoDir == Property(info, "repoDir")
       IN /\ ManifestCache' = invalidateCache(ManifestCache, repoDir)
          /\ CommitCache' = invalidateCache(CommitCache, repoDir)
    /\ UNCHANGED <<mobjs, mcalls>>
    /\ FrameManifests

InitManifests == InitOthers

NextManifests ==
    \/ \E d \in RepoDirs, b \in ManifestBranches : load(d, b)
    \/ \E d \in RepoDirs : getCommitHash(d)
    \/ \E k \in 1..MaxManifestCalls : ManifestRead(k)
    \/ \E k \in 1..MaxManifestCalls : LoadContinues(k)
    \/ \E k \in 1..MaxManifestCalls : CommitHashContinues(k)
    \/ \E d \in RepoDirs, b \in ManifestBranches : ManifestRepoUpdate(d, b)

SpecManifests == InitManifests /\ [][NextManifests]_vars

(***************************************************************************)
(* lib/query: handleQueryRequest, updateDB and the synced set              *)
(***************************************************************************)
\* isSynced( ctx )
isSynced(key, group) == group \in Synced[key]

\* setSynced( ctx )
setSynced(synced, key, group) == [synced EXCEPT ![key] = @ \cup {group}]

\* handleQueryRequest( ctx, req, res ) up to its first await: a synced file
\* DB is queried directly, otherwise the refresh starts with ensureDir.
handleQueryRequest(key, group) ==
    /\ Len(qreqs) < MaxQueryRequests
    /\ qreqs' = Append(qreqs,
          [key |-> key, group |-> group, listed |-> 0,
           pc |-> IF isSynced(key, group) THEN "query" ELSE "ensureDir"])
    /\ UNCHANGED <<Synced, filedbs, qhead>>
    /\ FrameQuery

QueryAt(r, pc) ==
    /\ r \in 1..Len(qreqs)
    /\ qreqs[r].pc = pc

\* updateDB: readLatestCommit and listFileUpdates have produced the records
\* of the updates up to the repository's head at this moment.
UpdatesListed(r) ==
    /\ QueryAt(r, "ensureDir")
    /\ qreqs' = [qreqs EXCEPT ![r].pc = "addRecords",
                              ![r].listed = qhead[qreqs[r].key]]
    /\ UNCHANGED <<Synced, filedbs, qhead>>
    /\ FrameQuery

\* `await addFileRecords( origin, records )` completes, updateDB returns
\* and handleQueryRequest calls setSynced( ctx ).
RecordsAdded(r) ==
    /\ QueryAt(r, "addRecords")
    /\ LET q == qreqs[r] IN
       /\ filedbs' = [filedbs EXCEPT ![q.key][q.group] = Max({@, q.listed})]
       /\ Synced' = setSynced(Synced, q.key, q.group)
    /\ qreqs' = [qreqs EXCEPT ![r].pc = "query"]
    /\ UNCHANGED qhead
    /\ FrameQuery

\* The refresh fails (ensureDir, the listing or addFileRecords rejects):
\* the catch block answers with status 500.
RefreshFails(r) ==
    /\ QueryAt(r, "ensureDir") \/ QueryAt(r, "addRecords")
    /\ qreqs' = [qreqs EXCEPT ![r].pc = "failed"]
    /\ UNCHANGED <<Synced, filedbs, qhead>>
    /\ FrameQuery

\* `await _handleQueryRequest( origin, req, res )` completes.
QueryAnswered(r) ==
    /\ QueryAt(r, "query")
    /\ qreqs' = [qreqs EXCEPT ![r].pc = "done"]
    /\ UNCHANGED <<Synced, filedbs, qhead>>
    /\ FrameQuery

\* The content repository is updated and the builder emits
\* content-repo-update: `delete Synced[key]`.
QueryRepoUpdate(key) ==
    /\ qhead[key] < 1 + MaxQueryUpdates
    /\ qhead' = [qhead EXCEPT ![key] = @ + 1]
    /\ Synced' = [Synced EXCEPT ![key] = {}]
    /\ UNCHANGED <<filedbs, qreqs>>
    /\ FrameQuery

InitQuery == InitOthers

NextQuery ==
    \/ \E k \in QueryKeys, g \in QueryGroups : handleQueryRequest(k, g)
    \/ \E r \in 1..MaxQueryRequests : UpdatesListed(r)
    \/ \E r \in 1..MaxQueryRequests : RecordsAdded(r)
    \/ \E r \in 1..MaxQueryRequests : RefreshFails(r)
    \/ \E r \in 1..MaxQueryRequests : QueryAnswered(r)
    \/ \E k \in QueryKeys : QueryRepoUpdate(k)

SpecQuery == InitQuery /\ [][NextQuery]_vars

(***************************************************************************)
(* lib/httpapi: the request context middleware, updates.api, filesets.api  *)
(***************************************************************************)
PublicLists  == {<<>>, <<"public">>, <<"public", "dev">>, <<"dev", "public">>}
BranchParts  == {"public", "dev", "master", "undefined"}   \* path[idx]
AcmGroups    == {"g1", "g2"}                    \* values of ctx.auth.group
GroupParams  == AcmGroups \cup {"undefined"}    \* req.query.group
SinceParams  == {"undefined", "c1"}             \* req.query.since
FilesetModes == {"list", "contents", "other"}   \* req.params.mode
CategoryParams == {"pages", "undefined"}        \* req.params.category

\* branchdb.isPublicBranch( account, repo, branch )
isPublicBranch_any(db, branch) == TRUE

isPublicBranch(db, branch) == branch \in Range(db)

\* branchdb.getDefaultPublicBranch( account, repo ): repoInfo.public[0]
getDefaultPublicBranch(db) == IF db = <<>> THEN "undefined" ELSE db[1]

\* The context middleware: the branch of req.ctx, or "undefined" when the
\* middleware answers 404 and builds no context.
contextBranch(db, part) ==
    IF isPublicBranch(db, part) THEN part ELSE getDefaultPublicBranch(db)

HttpRequest(endpoint, part) ==
    [endpoint |-> endpoint, part |-> part, public |-> branchDB,
     branch |-> contextBranch(branchDB, part),
     group |-> "undefined", since |-> "undefined", mode |-> "list",
     category |-> "pages", pc |-> "done", responses |-> <<>>,
     auths |-> 0, authGroup |-> "undefined", filedbOps |-> 0,
     records |-> FALSE]

\* A request the context middleware ends with 404, or passes on with req.ctx.
routed(req, handled) ==
    IF req.branch = "undefined"
    THEN [req EXCEPT !.responses = <<404>>]
    ELSE handled

\* `if( group !== undefined && group != ctx.auth.group )`
GroupChanged_never(group, current) == FALSE

GroupChanged(group, current) == group # "undefined" /\ group # current

\* GET / POST updates.api: handleUpdatesRequest up to
\* `await acm.authenticate( ctx, req, res )`.
UpdatesRequest(part, since, group) ==
    /\ Len(hreqs) < MaxHttpRequests
    /\ LET req == [HttpRequest("updates", part) EXCEPT
                      !.since = since, !.group = group]
       IN hreqs' = Append(hreqs,
             routed(req, [req EXCEPT !.pc = "auth", !.auths = 1]))
    /\ UNCHANGED branchDB
    /\ FrameHttp

\* `if( mode != 'contents' && mode != 'list' )`
BadMode(mode) == mode # "contents" /\ mode # "list"

\* GET / POST filesets.api/:category/:mode: handleFilesetRequest up to
\* `await acm.authenticate( ctx, req, res )`.  The mode test sends 400 and
\* goes on; the category test sends 400 and returns.
FilesetRequest(part, since, mode, category) ==
    /\ Len(hreqs) < MaxHttpRequests
    /\ LET req == [HttpRequest("filesets", part) EXCEPT
                      !.since = since, !.mode = mode, !.category = category]
           r1  == IF BadMode(mode)
                  THEN [req EXCEPT !.responses = Append(@, 400)] ELSE req
           r2  == IF category = "undefined"
                  THEN [r1 EXCEPT !.responses = Append(@, 400)]
                  ELSE [r1 EXCEPT !.pc = "auth", !.auths = 1]
       IN hreqs' = Append(hreqs, routed(req, r2))
    /\ UNCHANGED branchDB
    /\ FrameHttp

HttpAt(r, pc) ==
    /\ r \in 1..Len(hreqs)
    /\ hreqs[r].pc = pc

\* acm.authenticate settles.  A rejection goes to handleRequestError; after
\* a success updates.api tests the group parameter (205) and both handlers
\* call the file DB.
AuthSettles(r, outcome, group) ==
    /\ HttpAt(r, "auth")
    /\ LET req == hreqs[r] IN
       hreqs' = [hreqs EXCEPT ![r] =
          IF outcome = "err"
          THEN [req EXCEPT !.pc = "done", !.responses = Append(@, 401)]
          ELSE IF req.endpoint = "updates" /\ GroupChanged(req.group, group)
          THEN [req EXCEPT !.pc = "done", !.authGroup = group,
                           !.responses = Append(@, 205)]
          ELSE [req EXCEPT !.pc = "filedb", !.authGroup = group,
                           !.filedbOps = @ + 1]]
    /\ UNCHANGED branchDB
    /\ FrameHttp

\* The file DB operation settles: sendFileDBResult sends the records, a
\* rejection goes to handleRequestError.
FiledbSettles(r, outcome) ==
    /\ HttpAt(r, "filedb")
    /\ hreqs' = [hreqs EXCEPT ![r] =
          IF outcome = "err"
          THEN [@ EXCEPT !.pc = "done", !.responses = Append(@, 500)]
          ELSE [@ EXCEPT !.pc = "done", !.responses = Append(@, 200),
                         !.records = TRUE]]
    /\ UNCHANGED branchDB
    /\ FrameHttp

\* branchdb.updateBranchInfo( account, repo ) stores the repository's new
\* branch info.
BranchInfoUpdated(public) ==
    /\ public # branchDB
    /\ branchDB' = public
    /\ UNCHANGED hreqs
    /\ FrameHttp

InitHttp == InitOthers

NextHttp ==
    \/ \E p \in BranchParts, s \in SinceParams, g \in GroupParams :
            UpdatesRequest(p, s, g)
    \/ \E p \in BranchParts, s \in SinceParams, m \in FilesetModes,
          c \in CategoryParams : FilesetRequest(p, s, m, c)
    \/ \E r \in 1..MaxHttpRequests, outcome \in Outcomes, g \in AcmGroups :
            AuthSettles(r, outcome, g)
    \/ \E r \in 1..MaxHttpRequests, outcome \in Outcomes :
            FiledbSettles(r, outcome)
    \/ \E public \in PublicLists : BranchInfoUpdated(public)

SpecHttp == InitHttp /\ [][NextHttp]_vars

(***************************************************************************)
(* lib/negotiator: Representations, StandardNegotiator, ACMNegotiator      *)
(***************************************************************************)
NegotiatorKinds  == {"std", "acm"}
NegotiatorGroups == <<"premium", "files">>  \* the groups of the ACMNegotiator

\* The index.* files of one resource directory, with the attributes
\* Representation finds among their extensions (undefined when none).
RepFiles ==
    {[path |-> "index.html", type |-> "text/html", language |-> "undefined",
      encoding |-> "undefined", group |-> "undefined"],
     [path |-> "index.en.html.utf8", type |-> "text/html", language |-> "en",
      encoding |-> "utf8", group |-> "undefined"],
     [path |-> "index.utf8.en.html", type |-> "text/html", language |-> "en",
      encoding |-> "utf8", group |-> "undefined"],
     [path |-> "index.files.html", type |-> "text/html",
      language |-> "undefined", encoding |-> "undefined", group |-> "files"],
     [path |-> "index.premium.en.html.utf8", type |-> "text/html",
      language |-> "en", encoding |-> "utf8", group |-> "premium"]}

\* keyPart( val )
keyPart(val) == IF val = "undefined" THEN "*" ELSE val

\* Representations.makeKey( rep ); ACMRepresentations.makeKey pushes the
\* group part.
makeKey(kind, rep) ==
    LET key == <<keyPart(rep.type), keyPart(rep.language),
                 keyPart(rep.encoding)>>
    IN IF kind = "acm" THEN Append(key, keyPart(rep.group)) ELSE key

IsPrefix(p, key) == Len(p) <= Len(key) /\ SubSeq(key, 1, Len(p)) = p

\* The node of the tree this.reps at a key prefix, after the insertions.
HasNode(kind, reps, p) ==
    \E i \in DOMAIN reps : IsPrefix(p, makeKey(kind, reps[i]))

\* Object.keys( node ): the ids under the node, in the order insert created
\* them.
NodeKeys(kind, reps, p) ==
    LET under == SelectSeq(reps, LAMBDA r : IsPrefix(p, makeKey(kind, r)))
    IN Dedup([i \in DOMAIN under |-> makeKey(kind, under[i])[Len(p) + 1]])

\* `node[id] = rep` of insert: the leaf of a key is the representation
\* inserted last with that key.
Leaf_first(kind, reps, key) ==
    reps[CHOOSE i \in DOMAIN reps :
            /\ makeKey(kind, reps[i]) = key
            /\ \A j \in DOMAIN reps : makeKey(kind, reps[j]) = key => i <= j].path

Leaf(kind, reps, key) ==
    reps[CHOOSE i \in DOMAIN reps :
            /\ makeKey(kind, reps[i]) = key
            /\ \A j \in DOMAIN reps : makeKey(kind, reps[j]) = key => j <= i].path

First(s, Accepted(_)) ==
    LET ok == SelectSeq(s, Accepted) IN
    IF ok = <<>> THEN "undefined" ELSE ok[1]

\* Accepts.mediaType / language / charset( opts, headers ): the negotiator
\* module reads headers.accept, headers['accept-language'] and
\* headers['accept-charset']; without the header every option is acceptable
\* and the first is preferred ('*' is no media type).
AcceptsMediaType(opts, headers) ==
    LET h == Property(headers, "accept") IN
    IF h = "undefined" THEN First(opts, LAMBDA o : o # "*")
    ELSE First(opts, LAMBDA o : o = h)

AcceptsLanguage(opts, headers) ==
    LET h == Property(headers, "accept-language") IN
    IF h = "undefined" THEN First(opts, LAMBDA o : TRUE)
    ELSE First(opts, LAMBDA o : o = h)

AcceptsCharset(opts, headers) ==
    LET h == Property(headers, "accept-charset") IN
    IF h = "undefined" THEN First(opts, LAMBDA o : TRUE)
    ELSE First(opts, LAMBDA o : o = h)

\* The resolver ACMRepresentations.makeResolver pushes: the first group of
\* the negotiator that is an option and one of ctx.auth.userInfo.groups.
ResolveGroup(opts, userGroups) ==
    First(NegotiatorGroups,
          LAMBDA g : g \in Range(opts) /\ g \in userGroups)

\* this.resolver[i]( ctx, opts, headers )
resolver(i, ctx, opts, headers) ==
    IF i = 1 THEN AcceptsMediaType(opts, headers)
    ELSE IF i = 2 THEN AcceptsLanguage(opts, headers)
    ELSE IF i = 3 THEN AcceptsCharset(opts, headers)
    ELSE ResolveGroup(opts, ctx.userGroups)

ResolverLength(kind) == IF kind = "acm" THEN 4 ELSE 3

RECURSIVE choose(_, _, _, _, _)
\* Representations.choose( ctx, headers ), from the node at prefix p on:
\* the key parts resolved and the representation path found (undefined
\* when the walk leaves the tree).
choose(kind, reps, ctx, headers, p) ==
    IF Len(p) = ResolverLength(kind)
    THEN [resolved |-> p, path |-> Leaf(kind, reps, p)]
    ELSE LET opts == NodeKeys(kind, reps, p)
             opt  == keyPart(resolver(Len(p) + 1, ctx, opts, headers))
             q    == Append(p, opt)
         IN IF HasNode(kind, reps, q)
            THEN choose(kind, reps, ctx, headers, q)
            ELSE [resolved |-> q, path |-> "undefined"]

\* StandardNegotiator.getContextKey; ACMNegotiator.getContextKey appends
\* ctx.auth.group.
getContextKey(kind, ctx, reqHeaders) ==
    LET key == <<Property(reqHeaders, "accept-charset"),
                 Property(reqHeaders, "accept-encoding"),
                 Property(reqHeaders, "accept-language")>>
    IN IF kind = "acm" THEN <<key, ctx.group>> ELSE <<key>>

\* The part of makeAuthContext the negotiators read: userInfo.groups, and
\* group, the fingerprint of the user's groups and the unrestricted
\* fileset categories together (modelled by the set of names).
negotiationContext(userGroups) ==
    [userGroups |-> userGroups,
     group |-> userGroups \cup
         {Filesets[i].category :
             i \in {j \in DOMAIN Filesets : ~Filesets[j].restricted}}]

AcceptHeaders   == {"undefined", "text/html"}
LanguageHeaders == {"undefined", "en"}
RequestGroups   == {{}, {"files"}, {"premium"}}

\* The headers of a request: a header that is absent is no property.
requestHeaders(accept, language) ==
    LET names == (IF accept = "undefined" THEN {} ELSE {"accept"}) \cup
                 (IF language = "undefined" THEN {}
                  ELSE {"accept-language"})
    IN [n \in names |-> IF n = "accept" THEN accept ELSE language]

\* makeRepresentations(): a new bundle of the negotiator.
NewBundle(kind) ==
    /\ nreps = <<>>
    /\ nkind # kind
    /\ nkind' = kind
    /\ UNCHANGED <<nreps, nchoices>>
    /\ FrameNegotiator

\* reps.insert( path, attrs ), while getResources builds the bundle.
RepInsert(file) ==
    /\ nchoices = <<>>
    /\ Len(nreps) < MaxReps
    /\ file \notin Range(nreps)
    /\ nreps' = Append(nreps, file)
    /\ UNCHANGED <<nkind, nchoices>>
    /\ FrameNegotiator

\* getRepresentation( ctx, accepts, path, cache ) for a request: `let
\* headers = { accepts }; rep = reps.choose( ctx, headers );`.
RepChoose(accept, language, userGroups) ==
    /\ nreps # <<>>
    /\ Len(nchoices) < MaxChoices
    /\ LET ctx        == negotiationContext(userGroups)
           reqHeaders == requestHeaders(accept, language)
           headers    == [accepts |-> reqHeaders]
           rep        == choose(nkind, nreps, ctx, headers, <<>>)
       IN nchoices' = Append(nchoices,
             [key |-> getContextKey(nkind, ctx, reqHeaders),
              accept |-> accept, language |-> language,
              userGroups |-> userGroups,
              resolved |-> rep.resolved, path |-> rep.path])
    /\ UNCHANGED <<nkind, nreps>>
    /\ FrameNegotiator

InitNegotiator == InitOthers

NextNegotiator ==
    \/ \E kind \in NegotiatorKinds : NewBundle(kind)
    \/ \E file \in RepFiles : RepInsert(file)
    \/ \E a \in AcceptHeaders, l \in LanguageHeaders, g \in RequestGroups :
            RepChoose(a, l, g)

SpecNegotiator == InitNegotiator /\ [][NextNegotiator]_vars

(***************************************************************************)
(* lib/search cache: listFilesInCache, pruneRepoCache                      *)
(***************************************************************************)
CachePaths == <<"a.json", "b.json">>     \* in the order find lists them
FileSizes  == {1, 2}
NoFile     == [size |-> 0, atime |-> 0, mtime |-> 0]

\* The value of a promise that was not awaited, and of an array.
PromiseOf(v) == [kind |-> "promise", value |-> v]
ArrayOf(s)   == [kind |-> "array", value |-> s]

\* listFilesInCache( cacheDir, account, repo, branch ): `files` is the
\* promise exec returns, its length is undefined, the loop body never runs
\* and the async function returns a promise of the empty infos.
listFilesInCache(cache) == PromiseOf(ArrayOf(<<>>))

RECURSIVE SumSizes(_)
SumSizes(files) ==
    IF files = <<>> THEN 0 ELSE Head(files).info.size + SumSizes(Tail(files))

\* The compare function of pruneRepoCache's files.sort.
compareFiles(a, b) == b.info.mtime - a.info.mtime

RECURSIVE sortFiles(_)
\* files.sort( compare ), stable: each item goes behind the items that
\* compare does not put after it.
sortFiles(files) ==
    IF files = <<>> THEN <<>>
    ELSE LET rest == sortFiles(Tail(files))
             f    == Head(files)
             k    == Cardinality({i \in DOMAIN rest :
                         \A j \in 1..i : compareFiles(f, rest[j]) > 0})
         IN SubSeq(rest, 1, k) \o <<f>> \o SubSeq(rest, k + 1, Len(rest))

RECURSIVE shiftPaths(_, _, _)
\* The while loop of pruneRepoCache: the paths shifted off the list.
shiftPaths(files, size, max) ==
    IF size > max /\ Len(files) > 0
    THEN <<Head(files).path>> \o
         shiftPaths(Tail(files), size - Head(files).info.size, max)
    ELSE <<>>

\* The body of pruneRepoCache on the value of `files`, at time now: whether
\* it throws, and the paths it passes to rm.
pruneRepoCache(max, files, now) ==
    IF files.kind # "array"
    THEN [threw |-> TRUE, paths |-> <<>>]   \* files.reduce is not a function
    ELSE LET size == SumSizes(files.value) IN
         IF size > max
         THEN LET recent == SelectSeq(files.value,
                                LAMBDA f : now - f.info.atime > RecentTime)
                  sorted == sortFiles(recent)
              IN [threw |-> FALSE, paths |-> shiftPaths(sorted, size, max)]
         ELSE [threw |-> FALSE, paths |-> <<>>]

CacheSize(cache) ==
    LET Sum[i \in 0..Len(CachePaths)] ==
            IF i = 0 THEN 0 ELSE Sum[i - 1] + cache[CachePaths[i]].size
    IN Sum[Len(CachePaths)]

\* A search writes its result file into the cache.
ResultWritten(path, size) ==
    /\ scfiles[path] = NoFile
    /\ scfiles' = [scfiles EXCEPT
                      ![path] = [size |-> size, atime |-> sclock,
                                 mtime |-> sclock]]
    /\ UNCHANGED <<sclock, scprunes>>
    /\ FramePrune

\* A cached result is served again.
ResultRead(path) ==
    /\ scfiles[path] # NoFile
    /\ scfiles[path].atime < sclock
    /\ scfiles' = [scfiles EXCEPT ![path].atime = sclock]
    /\ UNCHANGED <<sclock, scprunes>>
    /\ FramePrune

ClockAdvances ==
    /\ sclock < MaxClock
    /\ sclock' = sclock + 1
    /\ UNCHANGED <<scfiles, scprunes>>
    /\ FramePrune

\* process.nextTick( () => pruneRepoCache( maxCacheSize, ... ) ): the call
\* `let files = listFilesInCache( ... )` has no await.
PruneRepoCache ==
    /\ Len(scprunes) < MaxPrunes
    /\ LET files == listFilesInCache(scfiles)
           out   == pruneRepoCache(maxCacheSize, files, sclock)
       IN /\ scfiles' = [p \in DOMAIN scfiles |->
                 IF p \in Range(out.paths) THEN NoFile ELSE scfiles[p]]
          /\ scprunes' = Append(scprunes, [threw |-> out.threw, at |-> sclock])
    /\ UNCHANGED sclock
    /\ FramePrune

InitPrune == InitOthers

NextPrune ==
    \/ \E path \in Range(CachePaths), size \in FileSizes :
            ResultWritten(path, size)
    \/ \E path \in Range(CachePaths) : ResultRead(path)
    \/ ClockAdvances
    \/ PruneRepoCache

SpecPrune == InitPrune /\ [][NextPrune]_vars

(***************************************************************************)
(* lib/search db: Scope.prototype.updateContent                            *)
(***************************************************************************)
\* The ids of the rows of the scope table: one per account/repo/branch.
ScopeIds       == {1, 2}
FileIds        == {"X", "Y"}
SearchPaths    == {"p.html", "q.html"}
SearchVersions == {"v1", "v2"}   \* title and content of a file's versions

\* The search records makeSearchRecord and the fileset processors make:
\* published records with id, path, category, title and content, and delete
\* records, which makeSearchRecord makes with the path alone.
SearchRecords ==
    {[id |-> id, path |-> path, category |-> "pages", title |-> v,
      content |-> v, deleted |-> FALSE] :
        id \in FileIds, path \in SearchPaths, v \in SearchVersions}
    \cup
    [id : FileIds \cup {"undefined"}, path : SearchPaths,
     category : {"undefined"}, title : {"undefined"},
     content : {"undefined"}, deleted : {TRUE}]

NoRow == [id |-> "undefined", scopeid |-> 0, path |-> "undefined",
          title |-> "undefined", category |-> "undefined", textid |-> 0]

\* conn.first( 'SELECT id, textid FROM files WHERE scopeid=$scopeid AND
\* path=$path' ), or `AND id=$id` when the record has an id: the first row
\* found, or undefined.
lookupRow(files, scopeid, record) ==
    LET rows == SelectSeq(files, LAMBDA row :
                    /\ row.scopeid = scopeid
                    /\ IF record.id = "undefined" THEN row.path = record.path
                       ELSE row.id = record.id)
    IN IF rows = <<>> THEN NoRow ELSE rows[1]

\* The rowid INSERT INTO text gives the new row.
nextRowid(text) == IF DOMAIN text = {} THEN 1 ELSE Max(DOMAIN text) + 1

\* Scope.prototype.updateContent( record ) of the scope with id scopeid, on
\* the tables.  The DELETEs select by textid; the UPDATE of the files table
\* selects by `id=$id` alone.
updateContent(files, text, scopeid, record) ==
    LET row == lookupRow(files, scopeid, record) IN
    IF row # NoRow
    THEN IF record.deleted
         THEN [text  |-> [t \in DOMAIN text \ {row.textid} |-> text[t]],
               files |-> SelectSeq(files,
                             LAMBDA r : r.textid # row.textid)]
         ELSE [text  |-> [t \in DOMAIN text |->
                             IF t = row.textid THEN record.content
                             ELSE text[t]],
               files |-> [i \in DOMAIN files |->
                             IF files[i].id = row.id
                             THEN [files[i] EXCEPT
                                      !.title = record.title,
                                      !.category = record.category]
                             ELSE files[i]]]
    ELSE IF ~record.deleted /\ record.id # "undefined"
    THEN LET textid == nextRowid(text) IN
         [text  |-> [t \in DOMAIN text \cup {textid} |->
                        IF t = textid THEN record.content ELSE text[t]],
          files |-> Append(files,
                        [id |-> record.id, scopeid |-> scopeid,
                         path |-> record.path, title |-> record.title,
                         category |-> record.category, textid |-> textid])]
    ELSE [text |-> text, files |-> files]

\* The indexer's `await scope.updateContent( record )`.
UpdateContent(scopeid, record) ==
    /\ sapplied.count < MaxContentUpdates
    /\ LET db == updateContent(sfiles, stext, scopeid, record) IN
          /\ sfiles' = db.files
          /\ stext' = db.text
    /\ sapplied' = [count |-> sapplied.count + 1,
                    last |-> <<[scopeid |-> scopeid, record |-> record]>>]
    /\ FrameSearchDB

InitSearchDB == InitOthers

NextSearchDB ==
    \E scopeid \in ScopeIds, record \in SearchRecords :
        UpdateContent(scopeid, record)

SpecSearchDB == InitSearchDB /\ [][NextSearchDB]_vars

(***************************************************************************)
(* lib/http-auth basic: parseAuthHeader, authenticate                      *)
(***************************************************************************)
StringOf(s) == [kind |-> "string", value |-> s]

\* bcrypt's hash of a password.
BCryptHash(password) == <<"bcrypt", password>>

\* authSettings.users of the repository.
AuthSettingsUsers ==
    [alice |-> [password |-> BCryptHash("secret"), groups |-> {"staff"}]]

\* The Authorization headers of the requests: none, Basic with the base64
\* form of username:password, and another method.
NoAuthHeader == [method |-> "undefined", token |-> <<>>]
AuthHeaders ==
    {NoAuthHeader,
     [method |-> "Basic", token |-> <<"alice", "secret">>],
     [method |-> "Basic", token |-> <<"alice", "wrong">>],
     [method |-> "Basic", token |-> <<"bob", "secret">>],
     [method |-> "Bearer", token |-> <<"alice", "secret">>]}

\* new AuthUser( username, authenticated, groups ); new AuthUser() is the
\* unauthenticated user.
AuthUser(username, authenticated, groups) ==
    [username |-> username, authenticated |-> authenticated,
     groups |-> groups]

Unauthenticated == AuthUser("undefined", FALSE, {})

\* parseAuthHeader( header ): the decoded token split at ':'.
parseAuthHeader(token) == ArrayOf(token)

\* BCrypt.compare( s, hash, callback ) and `resolve( !err && ok )`:
\* bcryptjs reports an error for an s that is no string.
BCryptCompare(s, hash) == s.kind = "string" /\ hash = BCryptHash(s.value)

\* The body of authenticate( req, authSettings, authRealm ) after a cache
\* miss: the AuthUser made, or the 401 error thrown.  `let username,
\* password = tokens;` declares username without a value and gives
\* password the whole array.
authenticateHeader(header, users) ==
    IF header = NoAuthHeader
    THEN [threw |-> FALSE, user |-> Unauthenticated]
    ELSE IF header.method = "Basic"
    THEN LET tokens   == parseAuthHeader(header.token)
             username == "undefined"
             password == tokens
             userInfo == Property(users, username)
         IN IF username \in DOMAIN users
            THEN IF BCryptCompare(password, userInfo.password)
                 THEN [threw |-> FALSE,
                       user |-> AuthUser(username, TRUE, userInfo.groups)]
                 ELSE [threw |-> TRUE, user |-> Unauthenticated]
            ELSE [threw |-> TRUE, user |-> Unauthenticated]
    ELSE [threw |-> TRUE, user |-> Unauthenticated]

\* authenticate( req, authSettings, authRealm ) for a request with the
\* header: the cache is read first and set before the user is returned.
BasicAuthenticate(header) ==
    /\ Len(authcalls) < MaxAuthCalls
    /\ LET hits == {e \in AuthenticationUsers : e.key = header}
           out  == authenticateHeader(header, AuthSettingsUsers)
       IN IF hits # {}
          THEN /\ authcalls' = Append(authcalls,
                      [header |-> header, threw |-> FALSE,
                       user |-> (CHOOSE e \in hits : TRUE).user,
                       cached |-> AuthenticationUsers])
               /\ UNCHANGED AuthenticationUsers
          ELSE /\ AuthenticationUsers' =
                      IF out.threw THEN AuthenticationUsers
                      ELSE AuthenticationUsers \cup
                               {[key |-> header, user |-> out.user]}
               /\ authcalls' = Append(authcalls,
                      [header |-> header, threw |-> out.threw,
                       user |-> out.user, cached |-> AuthenticationUsers'])
    /\ FrameBasicAuth

InitBasicAuth == InitOthers

NextBasicAuth == \E header \in AuthHeaders : BasicAuthenticate(header)

SpecBasicAuth == InitBasicAuth /\ [][NextBasicAuth]_vars

(***************************************************************************)
(* lib/negotiator: StandardNegotiator.getResources and the resources cache *)
(***************************************************************************)
ResourceKeys == {"acme/site/master", "acme/site/dev"}

\* 'std-negotiator.getResources.'+ctx.key, among the named queues.
getResourcesQueueID(key) == IF key = "acme/site/master" THEN "q1" ELSE "q2"

\* `if( rscs )` of getResources( repoKey, make ) in negotiator/index.js.
ResourcesCached(cache, key) == cache[key] # 0

\* StandardNegotiator.getResources( ctx, cache ): the call is put on the
\* queue of its key with queue( queueID, .. ); once next() has started it,
\* cache( ctx.key, make ) returns the cached resources or calls make(),
\* which awaits listResourceFiles.
GetResources(key) ==
    /\ Len(gcalls) < MaxResourceCalls
    /\ Len(qops) < MaxOps
    /\ LET name  == getResourcesQueueID(key)
           i     == Len(qops) + 1
           c     == Len(gcalls) + 1
           ops1  == Append(qops, [name |-> name, kind |-> "promise",
                                  state |-> "queued", result |-> "none",
                                  starts |-> 0])
           items == Append(Queues[name].items, i)
           r     == IF IsFirstItem(items) THEN next(items, ops1)
                    ELSE [queue |-> [exists |-> TRUE, items |-> items],
                          ops |-> ops1]
           call  == [key |-> key, op |-> i, pc |-> "queued", resources |-> 0]
       IN /\ Queues' = [Queues EXCEPT ![name] = r.queue]
          /\ IF r.ops[i].state # "running"
             THEN /\ qops' = r.ops
                  /\ gcalls' = Append(gcalls, call)
             ELSE IF ResourcesCached(ResourcesCache, key)
             THEN /\ qops' = [r.ops EXCEPT ![i].state = "settled",
                                           ![i].result = "ok"]
                  /\ gcalls' = Append(gcalls,
                        [call EXCEPT !.pc = "done",
                                     !.resources = ResourcesCache[key]])
             ELSE /\ qops' = r.ops
                  /\ gcalls' = Append(gcalls, [call EXCEPT !.pc = "listing"])
    /\ UNCHANGED ResourcesCache
    /\ FrameResources

\* listResourceFiles of a call settles: `rscs = await make();
\* ResourcesCache.set( repoKey, rscs ); return rscs;`, or the call fails.
ResourceFilesListed(c, outcome) ==
    /\ c \in DOMAIN gcalls
    /\ gcalls[c].pc = "listing"
    /\ IF outcome = "ok"
       THEN /\ ResourcesCache' = [ResourcesCache EXCEPT ![gcalls[c].key] = c]
            /\ gcalls' = [gcalls EXCEPT ![c].pc = "done", ![c].resources = c]
       ELSE /\ gcalls' = [gcalls EXCEPT ![c].pc = "failed"]
            /\ UNCHANGED ResourcesCache
    /\ qops' = [qops EXCEPT ![gcalls[c].op].state = "settled",
                            ![gcalls[c].op].result = outcome]
    /\ UNCHANGED Queues
    /\ FrameResources

\* builder.on( 'content-repo-update', .. ): ResourcesCache.del( info.key ).
ResourcesRepoUpdate(key) ==
    /\ ResourcesCache[key] # 0
    /\ ResourcesCache' = [ResourcesCache EXCEPT ![key] = 0]
    /\ UNCHANGED <<gcalls, qvars>>
    /\ FrameResources

InitResources == InitOthers

NextResources ==
    \/ \E key \in ResourceKeys : GetResources(key)
    \/ \E c \in 1..MaxResourceCalls, outcome \in Outcomes :
            ResourceFilesListed(c, outcome)
    \/ \E key \in ResourceKeys : ResourcesRepoUpdate(key)

SpecResources == InitResources /\ [][NextResources]_vars

(***************************************************************************)
(* lib/acm: authenticate( ctx, req, res )                                  *)
(***************************************************************************)
\* authSettings.method of the repository: the methods of
\* publish.auth.methods, of which "test" returns no user and "broken"
\* throws an error of its own, and a name that is no method.
AuthMethodNames == {"basic", "test", "broken", "ldap"}
authMethods     == {"basic", "test", "broken"}

NoError == [type |-> "none", status |-> 0]
AuthenticationError(status) ==
    [type |-> "AuthenticationError", status |-> status]
OtherError == [type |-> "Error", status |-> 0]

\* `err instanceof AuthenticationError` in the catch block.
IsAuthenticationError_any(err) == TRUE

IsAuthenticationError(err) == err.type = "AuthenticationError"

\* The catch block of authenticate: the error the call throws for an error
\* caught.
authenticateCatch(err) ==
    IF IsAuthenticationError(err) THEN err ELSE AuthenticationError(500)

\* The authenticator of a method called with the request: the user it
\* returns ("undefined" for none) or the error it throws.  The test method
\* has no return statement.
authenticator(method, header, cache) ==
    IF method = "basic"
    THEN LET hits == {e \in cache : e.key = header}
             out  == authenticateHeader(header, AuthSettingsUsers)
         IN IF hits # {}
            THEN [error |-> NoError, user |-> <<(CHOOSE e \in hits : TRUE).user>>,
                  cache |-> cache]
            ELSE IF out.threw
            THEN [error |-> AuthenticationError(401), user |-> <<>>,
                  cache |-> cache]
            ELSE [error |-> NoError, user |-> <<out.user>>,
                  cache |-> cache \cup {[key |-> header, user |-> out.user]}]
    ELSE IF method = "test"
    THEN [error |-> NoError, user |-> <<>>, cache |-> cache]
    ELSE [error |-> OtherError, user |-> <<>>, cache |-> cache]

\* The try block of authenticate from the secure check on: the auth
\* context made, or the error thrown inside the block.
authenticateTry(secure, header, method, cache) ==
    IF secure /\ header = NoAuthHeader
    THEN [error |-> AuthenticationError(401), auth |-> <<>>, cache |-> cache]
    ELSE IF method \notin authMethods
    THEN [error |-> AuthenticationError(500), auth |-> <<>>, cache |-> cache]
    ELSE LET r == authenticator(method, header, cache) IN
         IF r.error # NoError
         THEN [error |-> r.error, auth |-> <<>>, cache |-> r.cache]
         ELSE IF r.user = <<>>
         THEN [error |-> OtherError, auth |-> <<>>, cache |-> r.cache]
         ELSE [error |-> NoError, cache |-> r.cache,
               auth |-> <<[userInfo |-> r.user[1],
                           group |-> negotiationContext(
                                         r.user[1].groups).group]>>]

\* authenticate( ctx, req, res ) up to `await getAuthSettingsForContext`.
AcmAuthenticate(secure, header, method) ==
    /\ Len(acmcalls) < MaxAcmCalls
    /\ acmcalls' = Append(acmcalls,
          [secure |-> secure, header |-> header, method |-> method,
           pc |-> "settings", ctxauth |-> <<>>, returned |-> <<>>,
           threw |-> NoError])
    /\ UNCHANGED uvars
    /\ FrameAcm

\* getAuthSettingsForContext settles and the call runs to its end.
AuthSettingsLoaded(c, outcome) ==
    /\ c \in DOMAIN acmcalls
    /\ acmcalls[c].pc = "settings"
    /\ LET call == acmcalls[c]
           r == IF outcome = "err"
                THEN [error |-> OtherError, auth |-> <<>>,
                      cache |-> AuthenticationUsers]
                ELSE authenticateTry(call.secure, call.header, call.method,
                                     AuthenticationUsers)
       IN /\ AuthenticationUsers' = r.cache
          /\ acmcalls' = [acmcalls EXCEPT ![c] =
                IF r.error = NoError
                THEN [call EXCEPT !.pc = "done", !.ctxauth = r.auth,
                                  !.returned = r.auth]
                ELSE [call EXCEPT !.pc = "done",
                                  !.threw = authenticateCatch(r.error)]]
    /\ UNCHANGED authcalls
    /\ FrameAcm

InitAcm == InitOthers

NextAcm ==
    \/ \E secure \in BOOLEAN, header \in AuthHeaders,
          method \in AuthMethodNames : AcmAuthenticate(secure, header, method)
    \/ \E c \in 1..MaxAcmCalls, outcome \in Outcomes :
            AuthSettingsLoaded(c, outcome)

SpecAcm == InitAcm /\ [][NextAcm]_vars

(***************************************************************************)
(* lib/search db: makeExcerpt( row, term, mode )                           *)
(***************************************************************************)
\* `if( end < text.length - 1 )`: the ellipsis is appended.
EllipsisAfter(end, length) == end < length - 1

\* The window of makeExcerpt for a text of the given length whose match
\* index is fmidx: start and end of text.substring( start, end ), and
\* whether '...' is put before and after the excerpt.
makeExcerpt(length, fmidx) ==
    LET clen   == ExcerptLength \div 2
        start0 == fmidx - clen
        end0   == fmidx + clen
        start1 == IF start0 < 0 THEN 0 ELSE start0
        end1   == IF start0 < 0 THEN end0 - start0 ELSE end0
        diff   == end1 - length
        start2 == IF end1 > length
                  THEN (IF start1 > diff THEN start1 - diff ELSE 0)
                  ELSE start1
        end2   == IF end1 > length THEN length - 1 ELSE end1
    IN [start |-> start2, end |-> end2, before |-> start2 > 0,
        after |-> EllipsisAfter(end2, length)]

\* makeExcerpt is called for a result row.
MakeExcerpt ==
    /\ excerpt.window = <<>>
    /\ excerpt' = [excerpt EXCEPT
                      !.window = <<makeExcerpt(excerpt.length, excerpt.fmidx)>>]
    /\ FrameExcerpt

\* A row with a content text (`if( text )`) and the index of a match in it.
InitExcerpt ==
    /\ InitCommon
    /\ disabled = FALSE
    /\ inProfile = [b \in BuildBranches |-> TRUE]
    /\ bheads = [b \in BuildBranches |-> 1]
    /\ buildb = [b \in BuildBranches |-> 0]
    /\ bqueue = NoQueue
    /\ builds = <<>>
    /\ scan = NoScan
    /\ \E length \in 1..MaxTextLength : \E fmidx \in 0..(length - 1) :
          excerpt = [length |-> length, fmidx |-> fmidx, window |-> <<>>]

NextExcerpt == MakeExcerpt

SpecExcerpt == InitExcerpt /\ [][NextExcerpt]_vars

(***************************************************************************)
(* lib/filedb/files.js: the cache paths of getFileContents, getFileRecord  *)
(***************************************************************************)
\* The strings a cache path is made of are sequences of characters; the
\* literal parts of a path template are kept whole.  Commit hashes are
\* shortened to four characters.
Hostnames   == {<<"h">>, <<"h", "b">>}
BasePaths   == {<<"/">>, <<"/", "b", "/">>}
FileCommits == {<<"a", "b", "c", "d">>, <<"a", "b", "c", "e">>}
FileGroups  == {<<"g">>, <<"p">>}
Account     == <<"acme">>
Repo        == <<"site">>

\* Farmhash.fingerprint32( path ) maps the unbounded set of path strings to
\* the unsigned integers of 32 bits.  A path is represented by the number
\* its bytes spell, written in words of 32 bits with the most significant
\* first, and the fingerprint keeps the width of the result: the last word.
FilePaths == {<<0, 1>>, <<0, 2>>, <<1, 1>>}

fingerprint32(path) == path[Len(path)]

\* The decimal digits of a number, as a template interpolates it.
DigitChars == <<"0", "1", "2", "3", "4", "5", "6", "7", "8", "9">>

RECURSIVE decimal(_)
decimal(n) ==
    IF n < 10 THEN <<DigitChars[n + 1]>>
    ELSE decimal(n \div 10) \o <<DigitChars[(n % 10) + 1]>>

\* The request context of a file request.
FileContexts ==
    [account : {Account}, repo : {Repo}, hostname : Hostnames,
     basePath : BasePaths, group : FileGroups]

\* initPipeline( ctx, path ), for a path the file-info DB maps to commit.
initPipeline(ctx, path, commit) ==
    [ctx |-> ctx, commit |-> commit,
     commitPath |-> SubSeq(commit, 1, 2) \o <<"/">>
                        \o SubSeq(commit, 3, Len(commit)),
     path |-> path, pathHash |-> fingerprint32(path)]

\* 'external/{ctx.hostname}{ctx.basePath}{commitPath}/{pathHash}-{ctx.auth.group}'
contentsPath(v) ==
    <<"external/">> \o v.ctx.hostname \o v.ctx.basePath \o v.commitPath
        \o <<"/">> \o decimal(v.pathHash) \o <<"-">> \o v.ctx.group

\* 'internal/{ctx.account}/{ctx.repo}/records/{commitPath}-{pathHash}.json'
recordPath(v) ==
    <<"internal/">> \o v.ctx.account \o <<"/">> \o v.ctx.repo
        \o <<"/records/">> \o v.commitPath \o <<"-">> \o decimal(v.pathHash)
        \o <<".json">>

\* 'internal/{ctx.account}/{ctx.repo}/records/{commitPath}-{pathHash}-{ctx.auth.group}.json'
filteredRecordPath(v) ==
    <<"internal/">> \o v.ctx.account \o <<"/">> \o v.ctx.repo
        \o <<"/records/">> \o v.commitPath \o <<"-">> \o decimal(v.pathHash)
        \o <<"-">> \o v.ctx.group \o <<".json">>

\* What the output of a step is made from: the file (path and commit) and
\* the request context it was produced for.
FileData(path, commit, ctx) ==
    [path |-> path, commit |-> commit, hostname |-> ctx.hostname,
     basePath |-> ctx.basePath, group |-> ctx.group]

\* The pipeline runtime on a step with a path template: the file at the
\* path when there is one, otherwise the step's own output.
fileStepOutput(cache, path, computed) ==
    IF \E a \in cache : a.path = path
    THEN (CHOOSE a \in cache : a.path = path).data
    ELSE computed

\* getFileContents( ctx, path ).
GetFileContents(ctx, path, commit) ==
    /\ fserved.count < MaxFileCalls
    /\ LET v    == initPipeline(ctx, path, commit)
           file == contentsPath(v)
           data == fileStepOutput(fartifacts, file,
                                  FileData(path, commit, ctx))
       IN /\ fartifacts' = fartifacts \cup {[path |-> file, data |-> data]}
          /\ fserved' = [count |-> fserved.count + 1,
                         last |-> <<[op |-> "getFileContents",
                                     request |-> FileData(path, commit, ctx),
                                     result |-> data]>>]
    /\ FrameFiles

\* getFileRecord( ctx, path ): the record is made in the open step and
\* filtered and rewritten for the request context in the second step.
GetFileRecord(ctx, path, commit) ==
    /\ fserved.count < MaxFileCalls
    /\ LET v        == initPipeline(ctx, path, commit)
           file1    == recordPath(v)
           record   == fileStepOutput(fartifacts, file1,
                                      FileData(path, commit, ctx))
           file2    == filteredRecordPath(v)
           filtered == fileStepOutput(fartifacts, file2,
                            FileData(record.path, record.commit, ctx))
       IN /\ fartifacts' = fartifacts \cup
                            {[path |-> file1, data |-> record],
                             [path |-> file2, data |-> filtered]}
          /\ fserved' = [count |-> fserved.count + 1,
                         last |-> <<[op |-> "getFileRecord",
                                     request |-> FileData(path, commit, ctx),
                                     result |-> filtered]>>]
    /\ FrameFiles

InitFiles == InitOthers

NextFiles ==
    \/ \E ctx \in FileContexts, path \in FilePaths, commit \in FileCommits :
            GetFileContents(ctx, path, commit)
    \/ \E ctx \in FileContexts, path \in FilePaths, commit \in FileCommits :
            GetFileRecord(ctx, path, commit)

SpecFiles == InitFiles /\ [][NextFiles]_vars

(***************************************************************************)
(* lib/search/server.js: the open step of the search pipeline              *)
(***************************************************************************)
\* An operation given to queue( SearchQueue, fn ) by the open step req:
\* the row callback's `() => { outs.write( .. ); outs.write('\n'); }` or
\* `() => outs.end()`.  Neither function returns a promise.
OpenOp(req, role, row) ==
    [name |-> "search.search", kind |-> "nopromise", state |-> "queued",
     result |-> "none", starts |-> 0, req |-> req, role |-> role,
     row |-> row]

\* What calling the function of an operation does to the output streams.
callFn(steps, op) ==
    IF op.role = "end"
    THEN [steps EXCEPT ![op.req].ended = @ + 1]
    ELSE [steps EXCEPT ![op.req].outs = Append(@, op.row)]

\* The functions next() called, in the order of the queue.
RECURSIVE callFns(_, _, _)
callFns(steps, ops, started) ==
    IF started = {} THEN steps
    ELSE LET i == CHOOSE j \in started : \A k \in started : j <= k
         IN callFns(callFn(steps, ops[i]), ops, started \ {i})

\* queue( SearchQueue, fn ) from an open step: the queue, the operations
\* and the streams afterwards.
queueSearch(q, ops, steps, op) ==
    LET r       == submit(q, ops, op)
        started == {i \in DOMAIN r.ops :
                        /\ r.ops[i].starts = 1
                        /\ i \in DOMAIN ops => ops[i].starts = 0}
    IN [queue |-> r.queue, ops |-> r.ops,
        steps |-> callFns(steps, r.ops, started)]

\* The pipeline calls the open step: db.search( .. ) starts a query that
\* has `rows` result rows.
OpenStarts(rows) ==
    /\ Len(opens) < MaxSearches
    /\ opens' = Append(opens, [pc |-> "querying", rows |-> rows, read |-> 0,
                               outs |-> <<>>, ended |-> 0, endop |-> 0,
                               pruneScheduled |-> FALSE])
    /\ UNCHANGED <<openq, openops>>
    /\ FrameOpen

\* db.each calls the row callback, which calls oneach( row ).
RowRead(k) ==
    /\ k \in DOMAIN opens
    /\ opens[k].pc = "querying"
    /\ opens[k].read < opens[k].rows
    /\ LET row == opens[k].read + 1
           r   == queueSearch(openq, openops,
                              [opens EXCEPT ![k].read = row],
                              OpenOp(k, "write", row))
       IN /\ openq' = r.queue
          /\ openops' = r.ops
          /\ opens' = r.steps
    /\ FrameOpen

\* db.each calls the completion callback without an error: db.search
\* resolves and the step goes on to `await queue( SearchQueue, () =>
\* outs.end() )`.
QueryResolves(k) ==
    /\ k \in DOMAIN opens
    /\ opens[k].pc = "querying"
    /\ opens[k].read = opens[k].rows
    /\ LET r == queueSearch(openq, openops,
                    [opens EXCEPT ![k].pc = "awaiting",
                                  ![k].endop = Len(openops) + 1],
                    OpenOp(k, "end", 0))
       IN /\ openq' = r.queue
          /\ openops' = r.ops
          /\ opens' = r.steps
    /\ FrameOpen

\* db.each calls the completion callback with an error: db.search rejects
\* and the catch block logs the error.
QueryRejects(k) ==
    /\ k \in DOMAIN opens
    /\ opens[k].pc = "querying"
    /\ opens' = [opens EXCEPT ![k].pc = "caught"]
    /\ UNCHANGED <<openq, openops>>
    /\ FrameOpen

\* The await of the promise queue() returned for outs.end is over, or the
\* catch block is: process.nextTick schedules pruneRepoCache and the step
\* returns.
awaitOver(ops, step) ==
    \/ step.pc = "caught"
    \/ /\ step.pc = "awaiting"
       /\ ops[step.endop].state = "settled"

OpenReturns(k) ==
    /\ k \in DOMAIN opens
    /\ awaitOver(openops, opens[k])
    /\ opens' = [opens EXCEPT ![k].pc = "returned",
                              ![k].pruneScheduled = TRUE]
    /\ UNCHANGED <<openq, openops>>
    /\ FrameOpen

InitOpen == InitOthers

NextOpen ==
    \/ \E rows \in 0..MaxRows : OpenStarts(rows)
    \/ \E k \in 1..MaxSearches : RowRead(k)
    \/ \E k \in 1..MaxSearches : QueryResolves(k)
    \/ \E k \in 1..MaxSearches : QueryRejects(k)
    \/ \E k \in 1..MaxSearches : OpenReturns(k)

SpecOpen == InitOpen /\ [][NextOpen]_vars

\* The event loop runs every callback that is due: the row and completion
\* callbacks of a running query, and the continuation of the step.
SpecOpenFair ==
    /\ InitOpen
    /\ [][NextOpen]_vars
    /\ \A k \in 1..MaxSearches :
            /\ WF_vars(RowRead(k))
            /\ WF_vars(QueryResolves(k) \/ QueryRejects(k))
            /\ WF_vars(OpenReturns(k))

\* C1: under one queue name at most one submitted operation is in progress at
\* a time (an operation is not started before every operation submitted
\* earlier under that name has settled).
C1_OneAtATime ==
    \A n \in QueueNames :
        Cardinality({i \in DOMAIN qops :
                        qops[i].name = n /\ qops[i].state = "running"}) <= 1

\* C2: while an execution started by singleton( id, op ) has not settled, a
\* further call with that id starts no execution; the callers that arrive in
\* that window, and the caller that started the execution, settle only with
\* that execution's outcome, and all of them have settled once it has.
C2_SingleFlight ==
    /\ \A id \in OpIds : Cardinality(RunningExecs(id)) <= 1
    /\ \A c \in DOMAIN scallers :
        /\ scallers[c].window # 0 =>
              ~scallers[c].started /\ scallers[c].exec = scallers[c].window
        /\ scallers[c].exec # 0 =>
            /\ scallers[c].state # "pending" =>
                  scallers[c].result =
                      <<scallers[c].exec, sexecs[scallers[c].exec].outcome>>
            /\ scallers[c].state = "resolved" <=>
                  (sexecs[scallers[c].exec].state = "settled"
                     /\ sexecs[scallers[c].exec].outcome = "ok")
            /\ scallers[c].state = "rejected" <=>
                  (sexecs[scallers[c].exec].state \in {"settled", "threw"}
                     /\ sexecs[scallers[c].exec].outcome = "err")

\* C2 witness: an execution has settled after a second caller joined it.
C2_Witness ==
    \E c \in DOMAIN scallers :
        /\ scallers[c].window # 0
        /\ scallers[c].state = "resolved"
        /\ \E d \in DOMAIN scallers :
              d # c /\ scallers[d].started /\ scallers[d].exec = scallers[c].exec
                    /\ scallers[d].state = "resolved"

\* The fn invocations of the pool that have started and not settled.
InFlight == {i \in DOMAIN wreqs : wreqs[i].state = "running"}

\* C3: the number of fn invocations of a workerQueue( N, fn ) pool that have
\* started and not settled is at most N.
C3_AtMostN == Cardinality(InFlight) <= PoolSize

\* C3 witness: N invocations are in flight and a further request waits.
C3_Witness == Cardinality(InFlight) = PoolSize /\ wqueue # <<>>

\* C4: a getFileInfoDB call that starts after a content-repo-update event
\* returns a DB built from a listAllFiles run that started after that event.
C4_FreshAfterUpdate ==
    \A r \in DOMAIN reqs :
        reqs[r].state = "done" => reqs[r].db.startEpoch >= reqs[r].callEpoch

\* The path belongs to a restricted fileset whose category is not in the
\* context's accessible set.
Restricted(ctx, path) ==
    /\ getFilesetForPath(path).restricted
    /\ getFilesetForPath(path).category \notin ctx.accessible

\* C6: for a restricted fileset whose category is not accessible to the
\* requesting user, getFileRecord on a file of the fileset returns the
\* not-found sentinel, and a listAllFiles for that user (here: the listing the
\* file-info DB was built from) has no record of the category - after any
\* earlier requests by any users.
C6_RestrictedHidden ==
    /\ \A r \in DOMAIN reqs :
          (/\ reqs[r].state = "done"
           /\ reqs[r].op = "getFileRecord"
           /\ Restricted(reqs[r].ctx, reqs[r].path))
          => ~reqs[r].result.found
    /\ Cache.has =>
          \A p \in Paths :
              (getFilesetForPath(p).restricted
                 /\ getFilesetForPath(p).category \notin Cache.db.group)
              => Cache.db.entries[p] = 0

\* The chunks form a JSON array or the start of one.
RECURSIVE ArrayPrefix(_, _)
ArrayPrefix(chunks, last) ==
    IF chunks = <<>> THEN TRUE
    ELSE LET c == Head(chunks) IN
         /\ CASE last = "none"   -> c \in {"[", "[]"}
              [] last = "["      -> c = "record"
              [] last = ","      -> c = "record"
              [] last = "record" -> c \in {",", "]"}
              [] OTHER           -> FALSE
         /\ ArrayPrefix(Tail(chunks), c)

ResponseFinished ==
    /\ rphase = "ended"
    /\ \A i \in DOMAIN rops : rops[i].state = "settled"

\* C7: the chunks written to the response of a search request are '[', then
\* records separated by ',', then one ']', or the single chunk '[]', with
\* nothing after the terminator, whatever the order in which the writer
\* operations and the closing operation run.
C7_ValidJSONArray ==
    /\ ArrayPrefix(res, "none")
    /\ ResponseFinished => (res # <<>> /\ res[Len(res)] \in {"]", "[]"})

InProgress(i) == units[i].state = "running" /\ units[i].pc # "hung"

\* C8: two indexing units for the same branch are never in progress at the
\* same time.
C8_OneUnitPerBranch ==
    \A i, j \in DOMAIN units :
        (i # j /\ units[i].branch = units[j].branch)
            => ~(InProgress(i) /\ InProgress(j))

\* C9: a unit that has failed has had its transaction rolled back (and
\* scope.since is only set together with the commit of the transaction).
C9_RollbackOnFailure ==
    /\ \A i \in DOMAIN units :
           units[i].pc = "hung" => ~(txn.open /\ txn.owner = i)
    /\ \A b \in IndexedBranches : scopes[b].since # 0 => ~txn.open

ControlCategories == {"$control", "$category", "$acm", "$commit", "$latest"}

IsFileRecord(r) == r.category \notin ControlCategories

IsReset(r) == r.category = "$control" /\ r.name = "reset"

C12_RecordOfPath ==
    \A r \in DOMAIN reqs :
        (/\ reqs[r].state = "done" /\ reqs[r].op = "getFileRecord"
         /\ reqs[r].result.found) =>
            \A i \in DOMAIN reqs[r].result.records :
                /\ reqs[r].result.records[i].path = reqs[r].path
                /\ reqs[r].result.records[i].category
                      = getFilesetForPath(reqs[r].path).category
                /\ reqs[r].result.records[i].commit
                      = reqs[r].db.entries[reqs[r].path]

\* C13: an id is held in SingletonCallers only while an execution for it is
\* running, so that after an execution that failed (by a rejected promise or
\* by throwing) no caller is left waiting and the next call starts a new
\* execution.
C13_ReleasedOnFailure ==
    /\ \A id \in OpIds : SingletonPending(id) => RunningExecs(id) # {}
    /\ \A c \in DOMAIN scallers :
           scallers[c].state = "pending" =>
               /\ scallers[c].exec # 0
               /\ sexecs[scallers[c].exec].state = "running"

\* C14: a call of the caching singleton made after op's result for the id
\* was stored, and before that entry is evicted, returns the stored result
\* without invoking op; and the cache holds an entry for an id only when an
\* execution for the id has resolved.
C14_Memoized ==
    /\ \A k \in DOMAIN cscalls :
           cscalls[k].afterSuccess =>
               /\ ~cscalls[k].invoked
               /\ cscalls[k].caller = 0
               /\ cscalls[k].state = "returned"
    /\ \A id \in OpIds :
           cscache[id].has =>
               \E e \in DOMAIN sexecs :
                   /\ sexecs[e].id = id
                   /\ sexecs[e].state = "settled"
                   /\ sexecs[e].outcome = "ok"

\* C15: the operations submitted under one queue name are started in the
\* order of their queue() calls, each once: an operation is never started
\* before an earlier one of its queue, never started twice, and waits
\* unstarted only behind an earlier operation of its queue that is running.
C15_StartedInOrder ==
    \A j \in DOMAIN qops :
        /\ qops[j].starts <= 1
        /\ qops[j].starts = 1 <=> qops[j].state # "queued"
        /\ \A i \in 1..(j - 1) :
              (qops[i].name = qops[j].name /\ qops[j].starts = 1)
                  => qops[i].starts = 1
        /\ qops[j].state = "queued" =>
              \E i \in 1..(j - 1) :
                  qops[i].name = qops[j].name /\ qops[i].state = "running"

\* C15 witness: three operations of one queue have been started, the second
\* after a function that returned no promise.
C15_Witness ==
    \E i, j, k \in DOMAIN qops :
        /\ i < j /\ j < k
        /\ qops[i].name = qops[j].name /\ qops[j].name = qops[k].name
        /\ qops[i].kind = "nopromise"
        /\ qops[i].starts = 1 /\ qops[j].starts = 1 /\ qops[k].starts = 1

\* C11: listUpdatesSince with a valid since has a record of status
\* 'deleted' for every path that was tracked at since and is not at commit,
\* when the path's fileset is accessible and the filter accepts the path,
\* whatever the processor of the fileset.
C11_DeletedReported ==
    \A l \in DOMAIN listings :
        (listings[l].op = "listUpdatesSince" /\ listings[l].sinceValid) =>
            \A p \in Paths :
                (/\ hist[listings[l].since][p].live
                 /\ ~hist[listings[l].commit][p].live
                 /\ getFilesetForPath(p).category \in listings[l].ctx.accessible
                 /\ FilterAccepts(listings[l].ctx.filter, [path |-> p]))
                => \E i \in DOMAIN listings[l].out :
                       /\ listings[l].out[i].path = p
                       /\ listings[l].out[i].status = "deleted"

\* C16: the builder queue executes doBuild for one request at a time: at most
\* one build request is between its start and its return.
C16_OneBuildAtATime ==
    Cardinality({i \in 1..Len(builds) : builds[i].state = "running"}) <= 1

BuildSettled(op) ==
    /\ (op.wrote # 0) <=> (op.ran /\ op.code = 0)
    /\ op.wrote # 0 => op.wrote = op.commit
    /\ ( \/ disabled
         \/ (op.commit # 0 /\ op.commit = op.last)
         \/ ~inProfile[op.branch] ) => (~op.ran /\ op.wrote = 0)

BuildDBStep ==
    /\ \A b \in BuildBranches : buildb'[b] # buildb[b] =>
          \E i \in 1..Len(builds) :
             /\ builds[i].pc = "exec" /\ builds[i].ran
             /\ builds'[i].pc = "done" /\ builds'[i].code = 0
             /\ builds[i].branch = b
             /\ buildb'[b] = builds[i].commit
    /\ \A i \in 1..Len(builds) :
          (builds[i].pc = "exec" /\ builds'[i].code = 0) =>
             buildb'[builds[i].branch] = builds[i].commit

C18_StaleQueued ==
    scan.pc \in {"done", "failed"} =>
        \A b \in BuildBranches :
            (scan.seen[b].seen /\ scan.seen[b].exists /\ scan.seen[b].stale)
                => b \in scan.queued

\* C19: a load or getCommitHash called after a content-repo-update event of
\* its repository does not return a value cached before that event: its
\* result is the manifest as the repository held it at the event or later.
C19_RereadAfterUpdate ==
    \A k \in 1..Len(mcalls) :
        mcalls[k].state = "done" => mcalls[k].result >= mcalls[k].since

\* C20: whenever (key, group) is marked as synced, the query file DB of that
\* key and group holds the updates up to the most recent content-repo-update
\* event of the key.
C20_SyncedIsCurrent ==
    \A k \in QueryKeys, g \in QueryGroups :
        isSynced(k, g) => filedbs[k][g] = qhead[k]

Authenticated(req) == req.authGroup # "undefined"

\* C21: an updates request authenticated into an ACM group that differs from
\* its group parameter gets the single response 205, without a file DB
\* operation and without records; with the parameter absent or equal to the
\* group no 205 is sent.
C21_ResetOnGroupChange ==
    \A r \in 1..Len(hreqs) :
        LET req == hreqs[r] IN
        (req.endpoint = "updates" /\ Authenticated(req)) =>
            IF req.group # "undefined" /\ req.group # req.authGroup
            THEN /\ req.responses = <<205>>
                 /\ req.filedbOps = 0
                 /\ ~req.records
            ELSE 205 \notin Range(req.responses)

C21_Witness ==
    \E r \in 1..Len(hreqs) :
        /\ hreqs[r].endpoint = "updates" /\ Authenticated(hreqs[r])
        /\ hreqs[r].group \in AcmGroups
        /\ hreqs[r].group # hreqs[r].authGroup
        /\ hreqs[r].responses = <<205>>

\* C22: the branch of every request context is a public branch of the
\* repository in the branch DB as it was when the context was built: the
\* branch named by the request when that is public, otherwise the default
\* public branch; without one the request is answered 404.
C22_PublicBranch ==
    \A r \in 1..Len(hreqs) :
        LET req == hreqs[r] IN
        /\ req.branch # "undefined" =>
              /\ req.branch \in Range(req.public)
              /\ req.branch = IF req.part \in Range(req.public)
                              THEN req.part ELSE req.public[1]
        /\ req.branch = "undefined" =>
              /\ req.public = <<>>
              /\ req.responses = <<404>> /\ req.auths = 0

C22_Witness ==
    \E r \in 1..Len(hreqs) :
        /\ hreqs[r].part = "master"
        /\ hreqs[r].public = <<"dev", "public">>
        /\ hreqs[r].branch = "dev"
        /\ hreqs[r].pc = "done" /\ hreqs[r].records

\* C29: a filesets request with a mode other than 'list' and 'contents', or
\* without a category, gets exactly one response, 400, and neither an
\* authentication nor a file DB operation.
C29_BadFilesetRequest ==
    \A r \in 1..Len(hreqs) :
        LET req == hreqs[r] IN
        ( /\ req.endpoint = "filesets" /\ req.branch # "undefined"
          /\ (BadMode(req.mode) \/ req.category = "undefined") ) =>
            /\ req.responses = <<400>>
            /\ req.auths = 0
            /\ req.filedbOps = 0

\* The place of a record in a listing: a reset record, a file record, then
\* the trailing control records.
Rank(r) ==
    IF IsReset(r) THEN 0
    ELSE IF IsFileRecord(r) THEN 1
    ELSE IF r.category = "$category" THEN 2
    ELSE IF r.category = "$acm" THEN 3
    ELSE IF r.category = "$commit" THEN 4
    ELSE 5

OfCategory(out, category) == {i \in DOMAIN out : out[i].category = category}

NoWildcard(key) == \A i \in DOMAIN key : key[i] # "*"

\* C24 as stated: for any representation inserted into the bundle with a
\* key without wildcard part, a choose that resolves the parts of that key
\* returns the representation.
C24_ChooseReturnsRep ==
    \A c \in DOMAIN nchoices : \A i \in DOMAIN nreps :
        LET key == makeKey(nkind, nreps[i]) IN
        (NoWildcard(key) /\ nchoices[c].resolved = key) =>
            nchoices[c].path = nreps[i].path

\* C24 amended: the same for a representation after which no representation
\* with the same key was inserted.
C24_ChooseReturnsLastRep ==
    \A c \in DOMAIN nchoices : \A i \in DOMAIN nreps :
        LET key == makeKey(nkind, nreps[i]) IN
        ( /\ NoWildcard(key) /\ nchoices[c].resolved = key
          /\ \A j \in DOMAIN nreps :
                makeKey(nkind, nreps[j]) = key => j <= i ) =>
            nchoices[c].path = nreps[i].path

C24_Witness ==
    \E c \in DOMAIN nchoices : \E i, j \in DOMAIN nreps :
        /\ i < j
        /\ makeKey(nkind, nreps[i]) = makeKey(nkind, nreps[j])
        /\ NoWildcard(makeKey(nkind, nreps[j]))
        /\ nchoices[c].resolved = makeKey(nkind, nreps[j])
        /\ nchoices[c].path = nreps[j].path

\* C25: two requests resolved against the same bundle with equal
\* getContextKey values get the same representation path.
C25_KeyDecides ==
    \A c, d \in DOMAIN nchoices :
        nchoices[c].key = nchoices[d].key =>
            nchoices[c].path = nchoices[d].path

Eligible(cache, p, now) ==
    cache[p] # NoFile /\ now - cache[p].atime > RecentTime

\* C27: a pruneRepoCache call on a cache over its quota deletes only files
\* not used within the last 60 seconds, never deletes a file while keeping
\* an eligible file used less recently, and leaves the cache within the
\* quota or without eligible files.
C27_PruneLRU ==
    [][ (scprunes' # scprunes /\ CacheSize(scfiles) > maxCacheSize) =>
            /\ \A p \in DOMAIN scfiles :
                  (scfiles'[p] # scfiles[p]) => Eligible(scfiles, p, sclock)
            /\ \A p, q \in DOMAIN scfiles :
                  ( /\ scfiles'[p] # scfiles[p]
                    /\ scfiles'[q] = scfiles[q]
                    /\ Eligible(scfiles, q, sclock) ) =>
                        scfiles[q].atime >= scfiles[p].atime
            /\ \/ CacheSize(scfiles') <= maxCacheSize
               \/ \A p \in DOMAIN scfiles : ~Eligible(scfiles', p, sclock)
      ]_vars

\* C26: when a search record has just been applied to the scope with
\* updateContent, applying the same record again leaves the files and text
\* tables as they are.
C26_UpdateContentIdempotent ==
    sapplied.last # <<>> =>
        LET again == updateContent(sfiles, stext, sapplied.last[1].scopeid,
                                   sapplied.last[1].record)
        IN again.files = sfiles /\ again.text = stext

\* C28: an authenticate call with a Basic header whose username is in
\* authSettings.users and whose password matches the stored hash returns
\* the authenticated AuthUser of that name with the user's groups; with an
\* unknown username or a wrong password it fails with the 401 error and
\* caches nothing.
C28_BasicAuthentication ==
    \A i \in DOMAIN authcalls :
        LET call     == authcalls[i]
            username == call.header.token[1]
            password == call.header.token[2]
            known    == username \in DOMAIN AuthSettingsUsers
        IN call.header.method = "Basic" =>
            IF known /\ AuthSettingsUsers[username].password
                            = BCryptHash(password)
            THEN /\ ~call.threw
                 /\ call.user = AuthUser(username, TRUE,
                                    AuthSettingsUsers[username].groups)
            ELSE /\ call.threw
                 /\ \A e \in call.cached : e.key # call.header

\* C30: when every fn invocation eventually settles, every request
\* submitted to the worker queue is eventually started and its promise
\* settled with the outcome of its own invocation, and no request waits in
\* the queue while fewer than count invocations are in flight.
C30_EveryRequestServed ==
    /\ \A i \in 1..MaxReqs :
          [](i \in DOMAIN wreqs =>
                <>(/\ i \in DOMAIN wreqs
                   /\ wreqs[i].state \in {"resolved", "rejected"}
                   /\ wreqs[i].result[1] = i))
    /\ [](wqueue # <<>> => Cardinality(InFlight) >= PoolSize)

C30_Witness ==
    \E i \in DOMAIN wreqs :
        /\ i > PoolSize
        /\ wreqs[i].state = "resolved"
        /\ wreqs[i].result = <<i, "ok">>
        /\ \A j \in 1..(i - 1) : wreqs[j].kind = "promise"

\* C31: the promise queue( name, op ) returns is eventually settled, with
\* the outcome of its own operation, and no operation stays unstarted
\* behind an operation of its queue that was rejected.
C31_SettlesWithOwnOutcome ==
    /\ \A i \in 1..MaxOps :
          [](i \in DOMAIN qops =>
                <>(i \in DOMAIN qops /\ qops[i].state = "settled"
                   /\ qops[i].result \in Outcomes))
    /\ [](\A j \in DOMAIN qops : qops[j].state = "queued" =>
              ~\E i \in 1..(j - 1) :
                  /\ qops[i].name = qops[j].name
                  /\ qops[i].state = "settled" /\ qops[i].result = "err"
                  /\ \A k \in 1..(j - 1) :
                        qops[k].name = qops[j].name =>
                            qops[k].state # "running")

\* C32: of the getResources calls for one key at most one is inside the
\* populate function (listResourceFiles) at a time: a call made while
\* another is listing waits for it and gets the resources it cached.
C32_PopulateOnce ==
    \A key \in ResourceKeys :
        Cardinality({c \in DOMAIN gcalls :
            gcalls[c].key = key /\ gcalls[c].pc = "listing"}) <= 1

\* C33: a finished acm.authenticate call has either returned an auth
\* context, which is then ctx.auth, or thrown an AuthenticationError and
\* left ctx.auth as it was; the status is 401 for a secure context without
\* Authorization header and for credentials the method rejects, and 500
\* otherwise.
C33_AuthenticationErrorOnly ==
    \A c \in DOMAIN acmcalls :
        LET call == acmcalls[c] IN
        call.pc = "done" =>
            \/ /\ call.threw = NoError
               /\ call.returned # <<>>
               /\ call.ctxauth = call.returned
            \/ /\ call.threw.type = "AuthenticationError"
               /\ call.threw.status \in {401, 500}
               /\ call.returned = <<>>
               /\ call.ctxauth = <<>>
               /\ (call.method \notin authMethods /\
                     ~(call.secure /\ call.header = NoAuthHeader))
                       => call.threw.status = 500
               /\ call.threw.status = 401 =>
                     \/ call.secure /\ call.header = NoAuthHeader
                     \/ call.method = "basic"

C33_Witness ==
    \E c, d \in DOMAIN acmcalls :
        /\ acmcalls[c].pc = "done" /\ acmcalls[d].pc = "done"
        /\ acmcalls[c].method = "broken"
        /\ acmcalls[c].threw = AuthenticationError(500)
        /\ acmcalls[d].ctxauth # <<>>

\* C34: the window of makeExcerpt lies inside the text and is at most
\* ExcerptLength long, and the excerpt has '...' in front iff the window
\* starts after the start of the text and '...' behind iff the window stops
\* before the end of the text.
C34_ExcerptWindow ==
    excerpt.window # <<>> =>
        LET w == excerpt.window[1] IN
        /\ 0 <= w.start /\ w.start <= w.end /\ w.end <= excerpt.length
        /\ w.end - w.start <= ExcerptLength
        /\ w.before <=> w.start > 0
        /\ w.after <=> w.end < excerpt.length

\* C35: every indexing unit submitted eventually finishes (its
\* updateSearchIndex call settles), and a transaction that was opened is
\* eventually closed.
C35_UnitsFinish ==
    /\ \A i \in 1..MaxUnits :
          [](i \in DOMAIN units =>
                <>(i \in DOMAIN units /\ units[i].state = "settled"))
    /\ [](txn.open => <>(~txn.open))

\* C36: the outcome (found or not) of a finished file request is the one
\* the request has with a file-info DB populated for its own auth context
\* at the same commit, whichever request populated the DB it was given.
C36_PopulatorIndependent ==
    \A r \in DOMAIN reqs :
        reqs[r].state = "done" =>
            (reqs[r].result.found <=>
                buildDB(reqs[r].ctx, reqs[r].db.commit,
                        reqs[r].db.startEpoch).entries[reqs[r].path] # 0)


\* C39: every path for which exists is true on the file-info DB a finished
\* request was given is a file path tracked at the commit the DB was built
\* from and owned by a fileset; the control records add no entries.
C39_KeysAreTrackedFiles ==
    \A r \in DOMAIN reqs :
        reqs[r].state = "done" =>
            \A p \in DBPaths :
                existsResult(p, reqs[r].db).found =>
                    /\ p \in Paths
                    /\ hist[reqs[r].db.commit][p].live
                    /\ getFilesetForPath(p) # NoFileset


\* The rows of the files table that belong to a scope, and the text rows
\* they refer to.
ScopeFiles(files, scopeid) ==
    SelectSeq(files, LAMBDA row : row.scopeid = scopeid)

ScopeText(files, text, scopeid) ==
    LET rows == ScopeFiles(files, scopeid)
    IN {<<rows[i].textid, text[rows[i].textid]>> :
            i \in {j \in DOMAIN rows : rows[j].textid \in DOMAIN text}}

\* C37: an updateContent call of one scope leaves the files rows and the
\* text rows of every other scope as they were.
C37_OtherScopesUnchanged ==
    [][\A scopeid \in ScopeIds :
            scopeid # sapplied'.last[1].scopeid =>
                /\ ScopeFiles(sfiles', scopeid) = ScopeFiles(sfiles, scopeid)
                /\ ScopeText(sfiles', stext', scopeid)
                        = ScopeText(sfiles, stext, scopeid)
      ]_vars


\* C38: a getFileContents or getFileRecord request is answered with data
\* produced for its own file path, commit, host name, base path and ACM
\* group: no artifact path is shared by requests that differ in one of them.
C38_OwnArtifact ==
    fserved.last # <<>> =>
        fserved.last[1].result = fserved.last[1].request


\* C40: every open step of the search pipeline that was started eventually
\* has returned with the cache prune scheduled, all result rows written to
\* its output stream in result order and the stream ended exactly once.
C40_OpenFinishes ==
    \A k \in 1..MaxSearches :
        [](k \in DOMAIN opens =>
            <>(/\ k \in DOMAIN opens
               /\ opens[k].pc = "returned"
               /\ opens[k].pruneScheduled
               /\ opens[k].outs = [i \in 1..opens[k].rows |-> i]
               /\ opens[k].ended = 1))

====
